---- MODULE Spec2Model ----
(***************************************************************************)
(* Model of the Figma Slides text extractor (src/code.ts).                 *)
(*                                                                         *)
(* A slide is a record [width, height, n, node], node a function on 0..n:  *)
(* node 0 is the slide itself, nodes 1..n are its descendants.  Each node  *)
(* carries the fields the code reads: parent, type, visible, locked, x, y, *)
(* width, height, fontSize, characters.                                    *)
(*                                                                         *)
(* Numbers: positions and font sizes are integers.  Products with the      *)
(* decimal factors of the code (0.4, 0.75, 0.6, ...) are kept exact by     *)
(* scaling: font thresholds are in hundredths of a point, column           *)
(* boundaries carry their denominator (see ColumnBoundaries).              *)
(***************************************************************************)
EXTENDS Integers, Sequences, FiniteSets, TLC

VARIABLES
    pc,         \* position of the operation under check, or of the extraction run
    slide,      \* the slide handed to a pure operation
    analysis,   \* the SlideAnalysis handed to a pure operation (or none)
    result,     \* what the pure operation returned
    doc,        \* the host document: slide grid provider, grid, frames
    cache,      \* analysisCache: slideId -> SlideAnalysis
    requested,  \* the 'analyze-slide-image' messages posted to the UI and not yet
                \* answered: slideId, and (not in the message) the slide whose image
                \* it carries and the call that posted it
    col,        \* collectSlideItemsFromGrid: totalSlides, sectionIndex, slideIndex,
                \* collectedCount, slideItems
    slideItems, \* the slide items handed to processSlidesInBatches
    slidesData, \* processSlidesInBatches: the records pushed so far
    proc,       \* processSlidesInBatches: currentIndex, endIndex, i
    sink,       \* the final messages ('data', 'error') posted to the UI
    progress,   \* the last 'progress' message posted to the UI
    completed,  \* how many times the completion callback was invoked
    thrown,     \* the slide items (by index) whose processing threw and was caught
    run,        \* which call of extractAndSendSlides the run variables belong to
    runs,       \* how many calls of extractAndSendSlides there have been
    others,     \* the other calls that still have a timer or a promise pending
    cacheRun,   \* slideId -> when its cache entry was written: the latest call there
                \* was, whether no call was waiting for it any more, and the slide
                \* and the call of the request that it answers
    storage,    \* figma.clientStorage: the value under 'customSystemPrompt'
    promptReply, \* the last 'system-prompt-saved' / 'system-prompt-loaded' message
    startupLoad, \* the prompt load of the startup code has not settled yet
    overlapped  \* some call was made while an earlier one had not delivered its result

pureVars == <<slide, analysis, result>>

\* the calls of extractAndSendSlides: each call has pc, col, slideItems,
\* slidesData, proc, completed and thrown of its own (the variables its
\* closures capture); run, runs and others tell which call these are
sessVars == <<run, runs, others, storage, promptReply, startupLoad, overlapped>>

runVars == <<doc, cache, cacheRun, requested, col, slideItems, slidesData, proc, sink,
            progress, completed, thrown, run, runs, others, storage, promptReply,
            startupLoad, overlapped>>

vars == <<pc, slide, analysis, result, doc, cache, cacheRun, requested, col, slideItems,
          slidesData, proc, sink, progress, completed, thrown, run, runs, others,
          storage, promptReply, startupLoad, overlapped>>

\* Bounds of the model.
MaxNodes == 3
MaxElems == 2
MaxFonts == 4
MaxProbe == 44
MaxEntries == 2
MaxFrames == 2
MaxRuns == 2

\* const BATCH_SIZE = 50 (collectBatch) and const BATCH_SIZE = 5 (processSlidesInBatches)
CollectBatchSize == 50
ProcessBatchSize == 5

\* const BATCH_SIZE = 100 (extractSlidesFallback)
AnalyzeBatchSize == 100

\* parent of the slide node: no parent inside the slide
NoParent == -1

\* SlideAnalysis | null (code.ts:31-34): null is a record with present = FALSE
NoAnalysis == [present |-> FALSE]

NoResult == [kind |-> "none"]

-----------------------------------------------------------------------------
(* Sequences helpers *)

Range(s) == {s[i] : i \in 1..Len(s)}

\* the element of a one-element set: {e(x) : x \in {v}} computes v once
TheOne(S) == CHOOSE v \in S : TRUE

\* the elements of a finite set of integers, ascending
SetToSeqAsc(S) ==
    [r \in 1..Cardinality(S) |->
        CHOOSE x \in S : Cardinality({y \in S : y < x}) = r - 1]

-----------------------------------------------------------------------------
(* findAllTextNodes, code.ts:47-70 *)

\* node.children, in document order
Children(s, node) == SetToSeqAsc({c \in 1..s.n : s.node[c].parent = node})

RECURSIVE FindAllTextNodesLeafLock(_, _, _)
\* mutant: only a text node's own lock is tested, a locked container is walked
FindAllTextNodesLeafLock(s, node, res) ==
    IF s.node[node].visible = FALSE THEN res
    ELSE IF s.node[node].type = "TEXT" /\ s.node[node].locked = TRUE THEN res
    ELSE LET r1 == IF s.node[node].type = "TEXT" THEN Append(res, node) ELSE res
             kids == Children(s, node)
             F[i \in 0..Len(kids)] ==
                 IF i = 0 THEN r1 ELSE FindAllTextNodesLeafLock(s, kids[i], F[i - 1])
         IN F[Len(kids)]

RECURSIVE FindAllTextNodesNoVisible(_, _, _)
\* mutant: the visibility test is missing
FindAllTextNodesNoVisible(s, node, res) ==
    IF s.node[node].locked = TRUE THEN res
    ELSE LET r1 == IF s.node[node].type = "TEXT" THEN Append(res, node) ELSE res
             kids == Children(s, node)
             F[i \in 0..Len(kids)] ==
                 IF i = 0 THEN r1 ELSE FindAllTextNodesNoVisible(s, kids[i], F[i - 1])
         IN F[Len(kids)]

RECURSIVE FindAllTextNodes(_, _, _)
FindAllTextNodes(s, node, res) ==
    IF s.node[node].visible = FALSE THEN res
    ELSE IF s.node[node].locked = TRUE THEN res
    ELSE LET r1 == IF s.node[node].type = "TEXT" THEN Append(res, node) ELSE res
             kids == Children(s, node)
             F[i \in 0..Len(kids)] ==
                 IF i = 0 THEN r1 ELSE FindAllTextNodes(s, kids[i], F[i - 1])
         IN F[Len(kids)]

-----------------------------------------------------------------------------
(* getAbsolutePosition, code.ts:122-135 *)

RECURSIVE AscendParents(_, _, _)
\* the while loop: add the offsets of the ancestors up to, not including, the slide
AscendParents(s, current, pos) ==
    IF current # NoParent /\ current # 0
    THEN AscendParents(s, s.node[current].parent,
                       [x |-> pos.x + s.node[current].x, y |-> pos.y + s.node[current].y])
    ELSE pos

GetAbsolutePosition(s, node) ==
    AscendParents(s, s.node[node].parent, [x |-> s.node[node].x, y |-> s.node[node].y])

-----------------------------------------------------------------------------
(* sortTextNodesByColumns, code.ts:138-204 *)

\* const targetAnalysisWidth = 400
TargetAnalysisWidth == 400

\* Math.round(slideWidth * Math.min(1, targetAnalysisWidth / slideWidth)),
\* for an integer slide width
AnalysisWidth(slideWidth) ==
    IF slideWidth <= TargetAnalysisWidth THEN slideWidth ELSE TargetAnalysisWidth

\* stable comparison sort (Array.prototype.sort) of items by ascending integer
\* key (keys[i] is the key of items[i]): item i goes to the place after all
\* items with a smaller key and all earlier items with an equal key
StableSortByKey(items, keys) ==
    LET n == Len(items)
        Rank(i) == 1 + Cardinality({j \in 1..n :
                        keys[j] < keys[i] \/ (keys[j] = keys[i] /\ j < i)})
    IN [r \in 1..n |-> items[CHOOSE i \in 1..n : Rank(i) = r]]

\* sort((a, b) => a - b)
SortAscending(nums) == StableSortByKey(nums, nums)

\* sort((a, b) => b - a)
SortDescending(nums) == StableSortByKey(nums, [i \in 1..Len(nums) |-> 0 - nums[i]])

\* column.sort((a, b) => a.y - b.y)
SortByY(items) == StableSortByKey(items, [i \in 1..Len(items) |-> items[i].y])

\* mutant helper: a column sorted bottom to top
SortByYDescending(items) == StableSortByKey(items, [i \in 1..Len(items) |-> 0 - items[i].y])

\* The column boundaries, as integers over a common denominator den: the
\* boundary in slide space is b[i] / den.  With an analysis the boundaries are
\* 0, (col.x / analysisWidth) * slideWidth for each column, and slideWidth,
\* sorted ascending (den = analysisWidth); without one they are
\* 0, slideWidth * 0.4, slideWidth (den = 10).
ColumnBoundaries(slideWidth, an) ==
    IF an.present /\ Len(an.layout.columns) > 0
    THEN LET aw == AnalysisWidth(slideWidth)
         IN [den |-> aw,
             b |-> SortAscending(<<0>> \o [i \in 1..Len(an.layout.columns) |->
                                              an.layout.columns[i].x * slideWidth]
                                       \o <<slideWidth * aw>>)]
    ELSE [den |-> 10, b |-> <<0, slideWidth * 4, slideWidth * 10>>]

\* item.x >= columnBoundaries[i] && item.x < columnBoundaries[i + 1]
InColumn(x, cb, i) == x * cb.den >= cb.b[i] /\ x * cb.den < cb.b[i + 1]

\* the first column whose interval holds x; 0 when the inner loop ends with no
\* match and the item is pushed nowhere
ColumnOf(x, cb) ==
    IF \E i \in 1..(Len(cb.b) - 1) : InColumn(x, cb, i)
    THEN CHOOSE i \in 1..(Len(cb.b) - 1) :
            InColumn(x, cb, i) /\ \A j \in 1..(i - 1) : ~InColumn(x, cb, j)
    ELSE 0

RECURSIVE Concat(_)
Concat(seqs) == IF seqs = <<>> THEN <<>> ELSE Head(seqs) \o Concat(Tail(seqs))

\* mutant: each column is ordered by descending y
SortTextNodesByColumnsYDesc(nodes, s, slideWidth, an) ==
    LET pos == [k \in 1..Len(nodes) |->
                   LET a == GetAbsolutePosition(s, nodes[k])
                   IN [node |-> nodes[k], x |-> a.x, y |-> a.y]]
        cb == ColumnBoundaries(slideWidth, an)
        columns == [i \in 1..(Len(cb.b) - 1) |->
                       SortByYDescending(SelectSeq(pos, LAMBDA it : ColumnOf(it.x, cb) = i))]
        all == Concat(columns)
    IN [k \in 1..Len(all) |-> all[k].node]

SortTextNodesByColumns(nodes, s, slideWidth, an) ==
    LET \* nodesWithPositions
        pos == [k \in 1..Len(nodes) |->
                   LET a == GetAbsolutePosition(s, nodes[k])
                   IN [node |-> nodes[k], x |-> a.x, y |-> a.y]]
        cb == ColumnBoundaries(slideWidth, an)
        \* one array per column, filled in input order, then sorted by y
        columns == [i \in 1..(Len(cb.b) - 1) |->
                       SortByY(SelectSeq(pos, LAMBDA it : ColumnOf(it.x, cb) = i))]
        all == Concat(columns)
    IN [k \in 1..Len(all) |-> all[k].node]

-----------------------------------------------------------------------------
(* getFontSize, categorizeFontSizes, getMarkdownLevel, formatMarkdown,      *)
(* code.ts:208-339.  Font sizes are integers (points); thresholds are in    *)
(* hundredths of a point, so that size * 0.75 is size * 75.                 *)

\* fontSize 0 stands for a size that is not a positive number (figma.mixed, or
\* getRangeFontSize throwing); characters "" is the empty text
GetFontSize(nd) ==
    IF nd.characters # "" /\ nd.fontSize > 0 THEN nd.fontSize ELSE 16

DefaultThresholds == [title |-> 3200, heading |-> 2400, subheading |-> 1800, body |-> 1400]

\* Math.floor(length * 0.25), Math.floor(length * 0.5), Math.floor(length * 0.75)
PercentileIndex(len, quarters) == (len * quarters) \div 4

\* mutant: with two distinct sizes the subheading threshold is scaled up
\* (heading * 1.85) instead of down
CategorizeFontSizesScaledUp(s, textNodes) ==
    IF Len(textNodes) = 0 THEN DefaultThresholds
    ELSE
    LET fontSizes == [k \in 1..Len(textNodes) |-> GetFontSize(s.node[textNodes[k]])]
        sortedSizes == SortDescending(fontSizes)
        maxSize == sortedSizes[1]
        minSize == sortedSizes[Len(sortedSizes)]
        uniqueSizes == SortDescending(SetToSeqAsc(Range(sortedSizes)))
    IN  IF maxSize - minSize < 2
        THEN [title |-> maxSize * 100, heading |-> maxSize * 75,
              subheading |-> maxSize * 60, body |-> maxSize * 50]
        ELSE IF Len(uniqueSizes) >= 4
        THEN [title |-> uniqueSizes[1] * 100, heading |-> uniqueSizes[2] * 100,
              subheading |-> uniqueSizes[3] * 100, body |-> uniqueSizes[4] * 100]
        ELSE IF Len(uniqueSizes) = 3
        THEN [title |-> uniqueSizes[1] * 100, heading |-> uniqueSizes[2] * 100,
              subheading |-> uniqueSizes[3] * 100, body |-> uniqueSizes[3] * 80]
        ELSE [title |-> uniqueSizes[1] * 100, heading |-> uniqueSizes[2] * 100,
              subheading |-> uniqueSizes[2] * 185, body |-> uniqueSizes[2] * 70]

\* mutant: a single distinct size is taken out first and gets the rank-based
\* percentiles of the sorted list
CategorizeFontSizesPercentileOne(s, textNodes) ==
    IF Len(textNodes) = 0 THEN DefaultThresholds
    ELSE
    LET fontSizes == [k \in 1..Len(textNodes) |-> GetFontSize(s.node[textNodes[k]])]
        sortedSizes == SortDescending(fontSizes)
        maxSize == sortedSizes[1]
        minSize == sortedSizes[Len(sortedSizes)]
        p75 == sortedSizes[PercentileIndex(Len(sortedSizes), 1) + 1]
        p50 == sortedSizes[PercentileIndex(Len(sortedSizes), 2) + 1]
        p25 == sortedSizes[PercentileIndex(Len(sortedSizes), 3) + 1]
        uniqueSizes == SortDescending(SetToSeqAsc(Range(sortedSizes)))
    IN  IF Len(uniqueSizes) = 1
        THEN [title |-> p75 * 100, heading |-> p50 * 100,
              subheading |-> p25 * 100, body |-> minSize * 100]
        ELSE IF maxSize - minSize < 2
        THEN [title |-> maxSize * 100, heading |-> maxSize * 75,
              subheading |-> maxSize * 60, body |-> maxSize * 50]
        ELSE IF Len(uniqueSizes) >= 4
        THEN [title |-> uniqueSizes[1] * 100, heading |-> uniqueSizes[2] * 100,
              subheading |-> uniqueSizes[3] * 100, body |-> uniqueSizes[4] * 100]
        ELSE IF Len(uniqueSizes) = 3
        THEN [title |-> uniqueSizes[1] * 100, heading |-> uniqueSizes[2] * 100,
              subheading |-> uniqueSizes[3] * 100, body |-> uniqueSizes[3] * 80]
        ELSE [title |-> uniqueSizes[1] * 100, heading |-> uniqueSizes[2] * 100,
              subheading |-> uniqueSizes[2] * 85, body |-> uniqueSizes[2] * 70]

\* mutant: the distinct sizes are counted before the spread is tested
CategorizeFontSizesCountFirst(s, textNodes) ==
    IF Len(textNodes) = 0 THEN DefaultThresholds
    ELSE
    LET fontSizes == [k \in 1..Len(textNodes) |-> GetFontSize(s.node[textNodes[k]])]
        sortedSizes == SortDescending(fontSizes)
        maxSize == sortedSizes[1]
        minSize == sortedSizes[Len(sortedSizes)]
        uniqueSizes == SortDescending(SetToSeqAsc(Range(sortedSizes)))
    IN  IF Len(uniqueSizes) >= 4
        THEN [title |-> uniqueSizes[1] * 100, heading |-> uniqueSizes[2] * 100,
              subheading |-> uniqueSizes[3] * 100, body |-> uniqueSizes[4] * 100]
        ELSE IF Len(uniqueSizes) = 3
        THEN [title |-> uniqueSizes[1] * 100, heading |-> uniqueSizes[2] * 100,
              subheading |-> uniqueSizes[3] * 100, body |-> uniqueSizes[3] * 80]
        ELSE IF Len(uniqueSizes) = 2
        THEN [title |-> uniqueSizes[1] * 100, heading |-> uniqueSizes[2] * 100,
              subheading |-> uniqueSizes[2] * 85, body |-> uniqueSizes[2] * 70]
        ELSE [title |-> maxSize * 100, heading |-> maxSize * 75,
              subheading |-> maxSize * 60, body |-> maxSize * 50]

CategorizeFontSizes(s, textNodes) ==
    IF Len(textNodes) = 0 THEN DefaultThresholds
    ELSE
    LET fontSizes == [k \in 1..Len(textNodes) |-> GetFontSize(s.node[textNodes[k]])]
        \* descending
        sortedSizes == SortDescending(fontSizes)
        maxSize == sortedSizes[1]
        minSize == sortedSizes[Len(sortedSizes)]
        sizeRange == maxSize - minSize
        p75 == sortedSizes[PercentileIndex(Len(sortedSizes), 1) + 1]
        p50 == sortedSizes[PercentileIndex(Len(sortedSizes), 2) + 1]
        p25 == sortedSizes[PercentileIndex(Len(sortedSizes), 3) + 1]
        \* Array.from(new Set(sortedSizes)).sort((a, b) => b - a)
        uniqueSizes == SortDescending(SetToSeqAsc(Range(sortedSizes)))
    IN  IF sizeRange < 2
        THEN [title |-> maxSize * 100, heading |-> maxSize * 75,
              subheading |-> maxSize * 60, body |-> maxSize * 50]
        ELSE IF Len(uniqueSizes) >= 4
        THEN [title |-> uniqueSizes[1] * 100, heading |-> uniqueSizes[2] * 100,
              subheading |-> uniqueSizes[3] * 100, body |-> uniqueSizes[4] * 100]
        ELSE IF Len(uniqueSizes) = 3
        THEN [title |-> uniqueSizes[1] * 100, heading |-> uniqueSizes[2] * 100,
              subheading |-> uniqueSizes[3] * 100, body |-> uniqueSizes[3] * 80]
        ELSE IF Len(uniqueSizes) = 2
        THEN [title |-> uniqueSizes[1] * 100, heading |-> uniqueSizes[2] * 100,
              subheading |-> uniqueSizes[2] * 85, body |-> uniqueSizes[2] * 70]
        ELSE [title |-> p75 * 100, heading |-> p50 * 100,
              subheading |-> p25 * 100, body |-> minSize * 100]

\* mutant: the heading test compares the wrong way round
GetMarkdownLevelFlipped(fontSize, thresholds) ==
    IF fontSize * 200 >= thresholds.title + thresholds.heading THEN "title"
    ELSE IF fontSize * 200 <= thresholds.heading + thresholds.subheading THEN "heading"
    ELSE IF fontSize * 200 >= thresholds.subheading + thresholds.body THEN "subheading"
    ELSE "body"

\* fontSize >= (t1 + t2) / 2 is fontSize * 2 >= t1 + t2, thresholds in hundredths
\* mutant: a size is a title only above the title threshold, not from the
\* midpoint of title and heading on
GetMarkdownLevelAboveTitle(fontSize, thresholds) ==
    IF fontSize * 100 > thresholds.title THEN "title"
    ELSE IF fontSize * 200 >= thresholds.heading + thresholds.subheading THEN "heading"
    ELSE IF fontSize * 200 >= thresholds.subheading + thresholds.body THEN "subheading"
    ELSE "body"

\* mutant: a size is a heading only above the heading threshold
GetMarkdownLevelAboveHeading(fontSize, thresholds) ==
    IF fontSize * 200 >= thresholds.title + thresholds.heading THEN "title"
    ELSE IF fontSize * 100 > thresholds.heading THEN "heading"
    ELSE IF fontSize * 200 >= thresholds.subheading + thresholds.body THEN "subheading"
    ELSE "body"

GetMarkdownLevel(fontSize, thresholds) ==
    IF fontSize * 200 >= thresholds.title + thresholds.heading THEN "title"
    ELSE IF fontSize * 200 >= thresholds.heading + thresholds.subheading THEN "heading"
    ELSE IF fontSize * 200 >= thresholds.subheading + thresholds.body THEN "subheading"
    ELSE "body"

\* the markdown prefix put before the text
FormatMarkdown(level) ==
    CASE level = "title" -> "# "
      [] level = "heading" -> "## "
      [] level = "subheading" -> "### "
      [] level = "body" -> ""

-----------------------------------------------------------------------------
(* isPointInImageRegion and extractSlideText, code.ts:342-433 *)

\* Math.round(slideHeight * analysisScale) for integer width and height
AnalysisHeight(slideWidth, slideHeight) ==
    IF slideWidth <= TargetAnalysisWidth THEN slideHeight
    ELSE (2 * slideHeight * TargetAnalysisWidth + slideWidth) \div (2 * slideWidth)

\* mutant: the centre is compared in slide space, not scaled to analysis space
IsPointInImageRegionUnscaled(x2, y2, imageRegions, slideWidth, slideHeight, aw, ah) ==
    \E i \in 1..Len(imageRegions) :
        LET region == imageRegions[i]
        IN /\ region.type = "image"
           /\ x2 >= 2 * region.x
           /\ x2 <= 2 * (region.x + region.width)
           /\ y2 >= 2 * region.y
           /\ y2 <= 2 * (region.y + region.height)

\* x2, y2 are twice the centre (2 * absolute position + width or height), so
\* that x * (analysisWidth / slideWidth) >= region.x is
\* x2 * analysisWidth >= 2 * region.x * slideWidth
IsPointInImageRegion(x2, y2, imageRegions, slideWidth, slideHeight, aw, ah) ==
    \E i \in 1..Len(imageRegions) :
        LET region == imageRegions[i]
        IN /\ region.type = "image"
           /\ x2 * aw >= 2 * region.x * slideWidth
           /\ x2 * aw <= 2 * (region.x + region.width) * slideWidth
           /\ y2 * ah >= 2 * region.y * slideHeight
           /\ y2 * ah <= 2 * (region.y + region.height) * slideHeight

\* the text nodes left after the image-region filter (code.ts:372-393)
FilterImageRegions(s, textNodes, an) ==
    IF an.present /\ SelectSeq(an.regions, LAMBDA r : r.type = "image") # <<>>
    THEN LET imageRegions == SelectSeq(an.regions, LAMBDA r : r.type = "image")
             aw == AnalysisWidth(s.width)
             ah == AnalysisHeight(s.width, s.height)
             Keep(n) ==
                 LET a == GetAbsolutePosition(s, n)
                 IN ~IsPointInImageRegion(2 * a.x + s.node[n].width,
                                          2 * a.y + s.node[n].height,
                                          imageRegions, s.width, s.height, aw, ah)
         IN SelectSeq(textNodes, Keep)
    ELSE textNodes

\* the items of a slide: per sorted node its text, its level and the markdown
\* prefix; node is the element the text was read from (not a field of TextItem)
FormatItems(s, sortedNodes, thresholds) ==
    [k \in 1..Len(sortedNodes) |->
        LET nd == s.node[sortedNodes[k]]
            level == GetMarkdownLevel(GetFontSize(nd), thresholds)
        IN [text |-> nd.characters, prefix |-> FormatMarkdown(level),
            level |-> level, node |-> sortedNodes[k]]]

ExtractSlideText(s, an) ==
    LET textNodes == FilterImageRegions(s, FindAllTextNodes(s, 0, <<>>), an)
        sortedNodes == SortTextNodesByColumns(textNodes, s, s.width, an)
        formatted == FormatItems(s, sortedNodes, CategorizeFontSizes(s, sortedNodes))
    IN [plainText |-> [k \in 1..Len(formatted) |-> formatted[k].text],
        formattedText |-> formatted]

-----------------------------------------------------------------------------
(* The run variables while a pure operation is checked on its own *)

NoDoc == [hasGrid |-> FALSE]

\* from tells which locator filled col: "grid" (collectSlideItemsFromGrid) or
\* "frames" (extractSlidesFallback, which uses sectionIndex as frameIndex)
NoCol == [from |-> "none", totalSlides |-> 0, sectionIndex |-> 0, slideIndex |-> 0,
          collectedCount |-> 0, slideItems |-> <<>>]

NoProc == [currentIndex |-> 0, endIndex |-> 0, i |-> 0]

EmptyCache == [id \in {} |-> NoAnalysis]

EmptyCacheRun == [id \in {} |-> 0]

\* nothing is stored under 'customSystemPrompt': getAsync gives undefined
NoPrompt == "undefined"

\* savedPrompt || null
OrNull(savedPrompt) == IF savedPrompt = NoPrompt THEN "null" ELSE savedPrompt

NoReply == [type |-> "none"]

\* the 'Starting extraction...' message of extractAndSendSlides (code.ts:813-818)
FirstProgress == [current |-> 0, total |-> 0, flip |-> 0]

RunIdle ==
    /\ doc = NoDoc
    /\ cache = EmptyCache
    /\ requested = {}
    /\ col = NoCol
    /\ slideItems = <<>>
    /\ slidesData = <<>>
    /\ proc = NoProc
    /\ sink = <<>>
    /\ progress = FirstProgress
    /\ completed = 0
    /\ thrown = {}
    /\ cacheRun = EmptyCacheRun
    /\ run = 1
    /\ runs = 1
    /\ others = {}
    /\ storage = NoPrompt
    /\ promptReply = NoReply
    /\ startupLoad = TRUE
    /\ overlapped = FALSE

-----------------------------------------------------------------------------
(* Specification SpecTree: findAllTextNodes on every small tree *)

\* a node with the fields that the tree walk does not read set to fixed values
TreeNode(parent, type, visible, locked) ==
    [parent |-> parent, type |-> type, visible |-> visible, locked |-> locked,
     x |-> 0, y |-> 0, width |-> 0, height |-> 0, fontSize |-> 16, characters |-> "t"]

\* parent tables: every node hangs under the slide or an earlier node
TreeShapes == {p \in [1..MaxNodes -> 0..(MaxNodes - 1)] : \A i \in 1..MaxNodes : p[i] < i}

\* a text node has no children (TextNode has no 'children' property)
TreeTypes(p) ==
    {t \in [1..MaxNodes -> {"TEXT", "GROUP"}] :
        \A i \in 1..MaxNodes : p[i] # 0 => t[p[i]] # "TEXT"}

TreeSlides ==
    {[width |-> 1920, height |-> 1080, n |-> MaxNodes,
      node |-> [i \in 0..MaxNodes |->
                  IF i = 0 THEN TreeNode(NoParent, "SLIDE", v[0], l[0])
                  ELSE TreeNode(p[i], t[i], v[i], l[i])]] :
        <<p, t, v, l>> \in
            {q \in TreeShapes \X [1..MaxNodes -> {"TEXT", "GROUP"}]
                     \X [0..MaxNodes -> BOOLEAN] \X [0..MaxNodes -> BOOLEAN] :
                q[2] \in TreeTypes(q[1])}}

InitTree ==
    /\ pc = "tree"
    /\ slide \in TreeSlides
    /\ analysis = NoAnalysis
    /\ result = NoResult
    /\ RunIdle

Walk ==
    /\ pc = "tree"
    /\ result' = [kind |-> "nodes", nodes |-> FindAllTextNodes(slide, 0, <<>>)]
    /\ pc' = "walked"
    /\ UNCHANGED <<slide, analysis>>
    /\ UNCHANGED runVars

NextTree == Walk

SpecTree == InitTree /\ [][NextTree]_vars

\* the nodes on the path from the slide down to node n, both included
RECURSIVE PathTo(_, _)
PathTo(s, n) == IF n = 0 THEN {0} ELSE {n} \cup PathTo(s, s.node[n].parent)

\* C6 as stated: exactly the text leaves whose path is visible and that are
\* themselves unlocked; the lock of an ancestor is not looked at.
C6_AsStated ==
    pc = "walked" =>
        /\ Range(result.nodes) =
              {n \in 1..slide.n :
                  /\ slide.node[n].type = "TEXT"
                  /\ \A a \in PathTo(slide, n) : slide.node[a].visible # FALSE
                  /\ slide.node[n].locked # TRUE}
        /\ Cardinality(Range(result.nodes)) = Len(result.nodes)

\* C6 amended: findAllTextNodes returns, once each, exactly the text leaves for
\* which every node on the path from the root to the leaf (both included) has
\* visible # false and locked # true: a locked ancestor excludes the leaf.
C6_WalkVisibleUnlockedPath ==
    pc = "walked" =>
        /\ Range(result.nodes) =
              {n \in 1..slide.n :
                  /\ slide.node[n].type = "TEXT"
                  /\ \A a \in PathTo(slide, n) :
                        slide.node[a].visible # FALSE /\ slide.node[a].locked # TRUE}
        /\ Cardinality(Range(result.nodes)) = Len(result.nodes)

\* a walked tree in which an unlocked, visible text leaf under a locked, visible
\* container is left out while another text leaf is collected
C6_Witness ==
    /\ pc = "walked"
    /\ Len(result.nodes) >= 1
    /\ \E n \in 1..slide.n :
          /\ slide.node[n].type = "TEXT"
          /\ slide.node[n].locked = FALSE
          /\ \A a \in PathTo(slide, n) : slide.node[a].visible = TRUE
          /\ \E a \in PathTo(slide, n) \ {n} : slide.node[a].locked = TRUE
          /\ n \notin Range(result.nodes)

-----------------------------------------------------------------------------
(* Specification SpecAscend: the while loop of getAbsolutePosition, one      *)
(* iteration per step, on every parent table over MaxNodes nodes: chains     *)
(* that reach the slide, chains that end at a null parent, and chains that   *)
(* run into a cycle.  Only the loop variable current is followed (x and y    *)
(* take no part in the loop condition); result holds the node the call was   *)
(* made for, current, and a bit that every iteration flips, as every         *)
(* iteration writes x and y.                                                 *)

\* every node has the slide, another node, itself or nothing as its parent
ChainSlides ==
    {[width |-> 1920, height |-> 1080, n |-> MaxNodes,
      node |-> [i \in 0..MaxNodes |->
                  IF i = 0 THEN TreeNode(NoParent, "SLIDE", TRUE, FALSE)
                  ELSE TreeNode(p[i], "TEXT", TRUE, FALSE)]] :
        p \in [1..MaxNodes -> {NoParent} \cup (0..MaxNodes)]}

\* let current = node.parent (code.ts:125)
InitAscend ==
    /\ pc = "ascend"
    /\ slide \in ChainSlides
    /\ analysis = NoAnalysis
    /\ \E n \in 1..MaxNodes :
          result = [kind |-> "ascent", node |-> n, current |-> slide.node[n].parent,
                    flip |-> 0]
    /\ RunIdle

\* one iteration: current is neither null nor the slide, and becomes its parent
AscendStep ==
    /\ pc = "ascend"
    /\ result.current # NoParent /\ result.current # 0
    /\ result' = [result EXCEPT !.current = slide.node[result.current].parent,
                                !.flip = 1 - @]
    /\ UNCHANGED <<pc, slide, analysis>>
    /\ UNCHANGED runVars

\* mutant: the loop condition fails at the slide only, not at a null parent
AscendReturnAtSlideOnly ==
    /\ pc = "ascend"
    /\ result.current = 0
    /\ pc' = "returned"
    /\ UNCHANGED <<slide, analysis, result>>
    /\ UNCHANGED runVars

\* the loop condition fails and the function returns
AscendReturn ==
    /\ pc = "ascend"
    /\ result.current = NoParent \/ result.current = 0
    /\ pc' = "returned"
    /\ UNCHANGED <<slide, analysis, result>>
    /\ UNCHANGED runVars

NextAscend == AscendStep \/ AscendReturn

\* the code of the function keeps running: an iteration or a return that can
\* be taken is taken
SpecAscend ==
    InitAscend /\ [][NextAscend]_vars /\ WF_vars(AscendStep) /\ WF_vars(AscendReturn)

RECURSIVE ParentAfter(_, _, _)
\* the k-th ancestor of node n, where the parent of nothing is nothing and
\* the ascent does not go beyond the slide
ParentAfter(s, n, k) ==
    IF k = 0 \/ n = NoParent \/ n = 0 THEN n
    ELSE ParentAfter(s, s.node[n].parent, k - 1)

\* the parent chain of node n comes to the slide or to a null parent
ChainEnds(s, n) == \E k \in 1..(s.n + 1) : ParentAfter(s, s.node[n].parent, k - 1) \in {NoParent, 0}

\* C23 as stated: getAbsolutePosition terminates for every parent chain, a
\* cyclic one that never reaches the slide included.
C23_AsStated == (pc = "ascend") ~> (pc = "returned")

\* C23 amended: getAbsolutePosition terminates for every parent chain that
\* comes to the slide or to a null parent, and it returns only there; on a
\* chain that runs into a cycle it does not return.
C23_AscentEndsOnProperChain ==
    /\ (pc = "ascend" /\ ChainEnds(slide, result.node)) ~> (pc = "returned")
    /\ [](pc = "returned" => result.current \in {NoParent, 0})
    /\ [](~ChainEnds(slide, result.node) => pc = "ascend")

\* the function has returned from a chain of two ancestors that ends at a null
\* parent, without reaching the slide
C23_Witness ==
    /\ pc = "returned"
    /\ result.current = NoParent
    /\ slide.node[result.node].parent \notin {NoParent, 0}
    /\ slide.node[slide.node[result.node].parent].parent \notin {NoParent, 0}

-----------------------------------------------------------------------------
(* Specification SpecCols: sortTextNodesByColumns on small element sets.    *)
(* Node 1 is a container at offset (width/10, 1); nodes 2..MaxElems+1 are   *)
(* text nodes placed on the slide or in the container.                      *)

\* slide widths: one below and one above the analysis width of 400
ColSlideWidths == {10, 800}

\* layout.columns of the analysis (x in analysis space), for analysis width aw;
\* <<>> is an analysis that detected no column
ColLayouts(aw) ==
    LET a == aw \div 10
    IN {<<>>, <<3 * a>>, <<6 * a, 2 * a>>, <<0, 5 * a>>, <<12 * a>>}

MkAnalysis(regions, columnXs) ==
    [present |-> TRUE,
     regions |-> regions,
     layout |-> [columnCount |-> Len(columnXs),
                 columns |-> [i \in 1..Len(columnXs) |->
                                 [x |-> columnXs[i], width |-> 1, contentDensity |-> 1]]]]

ColAnalyses(slideWidth) ==
    {NoAnalysis} \cup {MkAnalysis(<<>>, c) : c \in ColLayouts(AnalysisWidth(slideWidth))}

PlacedNode(parent, type, x, y) ==
    [parent |-> parent, type |-> type, visible |-> TRUE, locked |-> FALSE,
     x |-> x, y |-> y, width |-> 0, height |-> 0, fontSize |-> 16, characters |-> "t"]

ColSlides(w) ==
    LET u == w \div 10
        elems == [2..(MaxElems + 1) -> ({0, 1} \X {0 - u, 0, 4 * u, 9 * u} \X {0, 1})]
    IN {[width |-> w, height |-> w, n |-> MaxElems + 1,
         node |-> [i \in 0..(MaxElems + 1) |->
                     IF i = 0 THEN PlacedNode(NoParent, "SLIDE", 0, 0)
                     ELSE IF i = 1 THEN PlacedNode(0, "GROUP", g[1], g[2])
                     ELSE PlacedNode(e[i][1], "TEXT", e[i][2], e[i][3])]] :
          <<g, e>> \in {<<u, 1>>} \X elems}

InitCols ==
    /\ pc = "cols"
    /\ \E w \in ColSlideWidths :
          /\ slide \in ColSlides(w)
          /\ analysis \in ColAnalyses(w)
    /\ result = NoResult
    /\ RunIdle

ColInput == [k \in 1..MaxElems |-> k + 1]

SortColumns ==
    /\ pc = "cols"
    /\ result' = [kind |-> "nodes",
                  nodes |-> SortTextNodesByColumns(ColInput, slide, slide.width, analysis)]
    /\ pc' = "sorted"
    /\ UNCHANGED <<slide, analysis>>
    /\ UNCHANGED runVars

NextCols == SortColumns

SpecCols == InitCols /\ [][NextCols]_vars

AbsX(n) == GetAbsolutePosition(slide, n).x

AbsY(n) == GetAbsolutePosition(slide, n).y

\* the column of the claim for node n: the half-open interval between two
\* adjacent boundaries that holds its absolute x, 0 if there is none
ClaimColumn(n) == ColumnOf(AbsX(n), ColumnBoundaries(slide.width, analysis))

NumColumns == Len(ColumnBoundaries(slide.width, analysis).b) - 1

Occurrences(seq, e) == Cardinality({i \in 1..Len(seq) : seq[i] = e})

\* C4: sortTextNodesByColumns partitions its input: every input element is in
\* the output exactly once, whatever its absolute x and the slide width (an x in
\* no column interval counting for the last column).
C4_Partition ==
    pc = "sorted" =>
        \A n \in Range(ColInput) : Occurrences(result.nodes, n) = 1

\* C5: in the output of sortTextNodesByColumns an element of a lower column
\* comes before every element of a higher column whatever their y, and within
\* one column an element with smaller absolute y comes first.
C5_ColumnOrder ==
    pc = "sorted" =>
        \A i, j \in 1..Len(result.nodes) :
            LET a == result.nodes[i]
                b == result.nodes[j]
            IN /\ ClaimColumn(a) < ClaimColumn(b) => i < j
               /\ (ClaimColumn(a) = ClaimColumn(b) /\ AbsY(a) < AbsY(b)) => i < j

\* a sorted output in which a first-column element lower on the slide precedes
\* a later-column element higher on the slide, and two elements share a column
\* in the reverse of their input order
C5_Witness ==
    /\ pc = "sorted"
    /\ \E i, j \in 1..Len(result.nodes) :
          /\ i < j
          /\ ClaimColumn(result.nodes[i]) < ClaimColumn(result.nodes[j])
          /\ AbsY(result.nodes[i]) > AbsY(result.nodes[j])
          /\ result.nodes[i] > result.nodes[j]

-----------------------------------------------------------------------------
(* Specification SpecFont: categorizeFontSizes and getMarkdownLevel on every *)
(* small list of text nodes, all placed directly on the slide.              *)

\* what getRangeFontSize gives for a node: 0 is "not a positive number"
FontInputs == {0, 10, 11, 14, 20, 40}

\* (fontSize, characters) of a text node; the last is an empty text
FontKinds == {<<f, "t">> : f \in FontInputs} \cup {<<40, "">>}

FontNode(kind) ==
    [parent |-> 0, type |-> "TEXT", visible |-> TRUE, locked |-> FALSE,
     x |-> 0, y |-> 0, width |-> 0, height |-> 0,
     fontSize |-> kind[1], characters |-> kind[2]]

FontSlides ==
    {[width |-> 1920, height |-> 1080, n |-> Len(ks),
      node |-> [i \in 0..Len(ks) |->
                  IF i = 0 THEN PlacedNode(NoParent, "SLIDE", 0, 0) ELSE FontNode(ks[i])]] :
        ks \in UNION {[1..n -> FontKinds] : n \in 0..MaxFonts}}

InitFont ==
    /\ pc = "font"
    /\ slide \in FontSlides
    /\ analysis = NoAnalysis
    /\ result = NoResult
    /\ RunIdle

\* the sizes that are classified against the thresholds
ProbeSizes == 1..MaxProbe

Classify ==
    /\ pc = "font"
    /\ \E th \in {CategorizeFontSizes(slide, [k \in 1..slide.n |-> k])} :
          result' = [kind |-> "levels",
                     thresholds |-> th,
                     level |-> [f \in ProbeSizes |-> GetMarkdownLevel(f, th)],
                     items |-> FormatItems(slide, [k \in 1..slide.n |-> k], th)]
    /\ pc' = "classified"
    /\ UNCHANGED <<slide, analysis>>
    /\ UNCHANGED runVars

NextFont == Classify

SpecFont == InitFont /\ [][NextFont]_vars

\* C8: the thresholds of categorizeFontSizes are non-increasing,
\* title >= heading >= subheading >= body, for every list of font sizes (the
\* empty one included) and so on every branch.
C8_ThresholdsNonIncreasing ==
    pc = "classified" =>
        /\ result.thresholds.title >= result.thresholds.heading
        /\ result.thresholds.heading >= result.thresholds.subheading
        /\ result.thresholds.subheading >= result.thresholds.body

SlideFontSizes == {GetFontSize(slide.node[k]) : k \in 1..slide.n}

\* thresholds of a slide with exactly three distinct sizes spread by 2 or more,
\* where body is derived from subheading (0.8 of it) and all four differ
C8_Witness ==
    /\ pc = "classified"
    /\ Cardinality(SlideFontSizes) = 3
    /\ result.thresholds.title > result.thresholds.heading
    /\ result.thresholds.heading > result.thresholds.subheading
    /\ result.thresholds.body * 100 = result.thresholds.subheading * 80

LevelRank(level) ==
    CASE level = "body" -> 0
      [] level = "subheading" -> 1
      [] level = "heading" -> 2
      [] level = "title" -> 3

\* twice the three cut lines, in hundredths: the midpoints of adjacent thresholds
Midpoints2(th) == <<th.subheading + th.body, th.heading + th.subheading, th.title + th.heading>>

\* C9: classification is monotonic, a larger size never gets a lower level
\* (body < subheading < heading < title), and the cut lines are the midpoints of
\* adjacent thresholds: the level of a size is the number of midpoints it is at
\* or above.
C9_ClassificationMonotonic ==
    pc = "classified" =>
        /\ \A s1, s2 \in ProbeSizes :
              s1 <= s2 => LevelRank(result.level[s1]) <= LevelRank(result.level[s2])
        /\ \A f \in ProbeSizes :
              LevelRank(result.level[f]) =
                  Cardinality({i \in 1..3 : f * 200 >= Midpoints2(result.thresholds)[i]})

\* thresholds computed from sizes on the slide under which the probe sizes take
\* all four levels
C9_Witness ==
    /\ pc = "classified"
    /\ slide.n > 0
    /\ {result.level[f] : f \in ProbeSizes} = {"body", "subheading", "heading", "title"}

\* the font sizes of the slide's text nodes, largest first
SortedFontSizes == SortDescending([k \in 1..slide.n |-> GetFontSize(slide.node[k])])

\* the thresholds (in hundredths) as four numbers
Thresholds4 ==
    <<result.thresholds.title, result.thresholds.heading,
      result.thresholds.subheading, result.thresholds.body>>

\* the entry of the sorted list at index floor(length * quarters / 4)
RankEntry(quarters) == SortedFontSizes[(slide.n * quarters) \div 4 + 1]

DistinctSizes == SortDescending(SetToSeqAsc(SlideFontSizes))

\* C20: threshold values by branch.  If max - min < 2 the thresholds are
\* (max, 0.75 max, 0.6 max, 0.5 max), whatever the number of distinct sizes;
\* otherwise with four or more distinct sizes they are the four largest, with
\* three the three sizes and body = 0.8 subheading, with two the two sizes,
\* subheading = 0.85 heading and body = 0.7 heading.
C20_ThresholdsByBranch ==
    (pc = "classified" /\ slide.n > 0) =>
        \A d \in {DistinctSizes}, th \in {Thresholds4} :
           IF d[1] - d[Len(d)] < 2
           THEN th = <<100 * d[1], 75 * d[1], 60 * d[1], 50 * d[1]>>
           ELSE /\ Len(d) >= 4 => th = <<100 * d[1], 100 * d[2], 100 * d[3], 100 * d[4]>>
                /\ Len(d) = 3 =>
                     /\ th = <<100 * d[1], 100 * d[2], 100 * d[3], 80 * d[3]>>
                     /\ 100 * th[4] = 80 * th[3]
                /\ Len(d) = 2 =>
                     /\ th = <<100 * d[1], 100 * d[2], 85 * d[2], 70 * d[2]>>
                     /\ 100 * th[3] = 85 * th[2]
                     /\ 100 * th[4] = 70 * th[2]

\* two distinct sizes less than 2 apart: the spread test decides, not the count
C20_Witness ==
    /\ pc = "classified"
    /\ Cardinality(SlideFontSizes) = 2
    /\ DistinctSizes[1] - DistinctSizes[2] < 2
    /\ result.thresholds.heading * 100 = result.thresholds.title * 75

\* the font size observed on text node k of the slide
ObservedSize(k) == GetFontSize(slide.node[k])

\* the items of the slide that were read from a node of font size f
ItemsOfSize(f) == {j \in 1..Len(result.items) : ObservedSize(result.items[j].node) = f}

\* C24: every element whose font size is the largest observed on its slide is
\* classified 'title' and gets the marker '# '; when all elements of a slide
\* have one size, all of them are titles.
C24_LargestIsTitle ==
    pc = "classified" =>
        /\ Len(result.items) = slide.n
        /\ \A f \in SlideFontSizes :
              (\A g \in SlideFontSizes : g <= f) =>
                  /\ ItemsOfSize(f) # {}
                  /\ \A j \in ItemsOfSize(f) :
                        result.items[j].level = "title" /\ result.items[j].prefix = "# "
        /\ Cardinality(SlideFontSizes) = 1 =>
              \A j \in 1..Len(result.items) : result.items[j].level = "title"

\* a slide with two elements of the largest size, both titles, and an element
\* of another size that is not a title
C24_Witness ==
    /\ pc = "classified"
    /\ \E f \in SlideFontSizes :
          /\ \A g \in SlideFontSizes : g <= f
          /\ Cardinality(ItemsOfSize(f)) = 2
    /\ \E j \in 1..Len(result.items) : result.items[j].level # "title"
    /\ \E j \in 1..Len(result.items) : result.items[j].prefix = "# "

\* C25: on a slide with exactly two distinct font sizes that differ by 2 or
\* more, every element of the smaller size is classified 'heading' and gets
\* the marker '## '.
C25_SmallerOfTwoIsHeading ==
    (pc = "classified" /\ Cardinality(SlideFontSizes) = 2) =>
        \A f, g \in SlideFontSizes :
            f + 2 <= g =>
                \A j \in ItemsOfSize(f) :
                    result.items[j].level = "heading" /\ result.items[j].prefix = "## "

\* a slide with the sizes 14 and 16 only (two apart), two elements of size 14
C25_Witness ==
    /\ pc = "classified"
    /\ Cardinality(SlideFontSizes) = 2
    /\ \E f, g \in SlideFontSizes :
          /\ g - f = 2
          /\ Cardinality(ItemsOfSize(f)) = 2
          /\ \A j \in ItemsOfSize(f) : result.items[j].prefix = "## "

-----------------------------------------------------------------------------
(* Specification SpecFilter: extractSlideText on slides whose text elements  *)
(* lie around one region of the analysis.  Node 1 is a container at offset   *)
(* (50u, 10u), nodes 2..MaxElems+1 are text nodes on the slide or in the     *)
(* container; u is 1 for the slide as wide as the analysis and 2 for the     *)
(* slide twice as wide.  The region is 100..200 by 50..100 in analysis       *)
(* space.                                                                    *)

FilterUnits == {1, 2}

SizedNode(parent, type, x, y, width, height) ==
    [parent |-> parent, type |-> type, visible |-> TRUE, locked |-> FALSE,
     x |-> x, y |-> y, width |-> width, height |-> height, fontSize |-> 16,
     characters |-> "t"]

\* <<x, y, width, height>> of a text element: on a corner of the region, just
\* left of it (odd and even width), on the opposite corner, right of it,
\* above it
FilterBoxes(u) ==
    {<<100 * u, 50 * u, 0, 0>>,
     <<99 * u, 60 * u, 1, 0>>,
     <<99 * u, 60 * u, 2 * u, 0>>,
     <<190 * u, 95 * u, 20 * u, 10 * u>>,
     <<300 * u, 60 * u, 0, 0>>,
     <<150 * u, 20 * u, 0, 50 * u>>}

\* the height 300u + 1 makes analysisHeight / slideHeight differ from
\* analysisWidth / slideWidth for the wide slide (Math.round)
FilterSlides(u) ==
    {[width |-> 400 * u, height |-> 300 * u + 1, n |-> MaxElems + 1,
      node |-> [i \in 0..(MaxElems + 1) |->
                  IF i = 0 THEN SizedNode(NoParent, "SLIDE", 0, 0, 400 * u, 300 * u + 1)
                  ELSE IF i = 1 THEN SizedNode(0, "GROUP", 50 * u, 10 * u, 0, 0)
                  ELSE SizedNode(e[i][1], "TEXT", e[i][2][1], e[i][2][2],
                                 e[i][2][3], e[i][2][4])]] :
        e \in [2..(MaxElems + 1) -> ({0, 1} \X FilterBoxes(u))]}

Region(type, x, y, width, height) ==
    [x |-> x, y |-> y, width |-> width, height |-> height, type |-> type,
     confidence |-> 1]

\* no analysis; regions but none of type image; the image region alone, after
\* a text region, and beside a second image region
FilterAnalyses ==
    {NoAnalysis,
     MkAnalysis(<<>>, <<>>),
     MkAnalysis(<<Region("text", 100, 50, 100, 50)>>, <<>>),
     MkAnalysis(<<Region("image", 100, 50, 100, 50)>>, <<>>),
     MkAnalysis(<<Region("text", 0, 0, 400, 300), Region("image", 100, 50, 100, 50)>>, <<>>),
     MkAnalysis(<<Region("image", 380, 0, 10, 10), Region("image", 100, 50, 100, 50)>>, <<>>)}

InitFilter ==
    /\ pc = "filter"
    /\ \E u \in FilterUnits : slide \in FilterSlides(u)
    /\ analysis \in FilterAnalyses
    /\ result = NoResult
    /\ RunIdle

Extract ==
    /\ pc = "filter"
    /\ result' = [kind |-> "texts", ext |-> ExtractSlideText(slide, analysis)]
    /\ pc' = "filtered"
    /\ UNCHANGED <<slide, analysis>>
    /\ UNCHANGED runVars

NextFilter == Extract

SpecFilter == InitFilter /\ [][NextFilter]_vars

RECURSIVE PathOffset(_, _)
\* the offsets of node n and of its ancestors below the slide, added up
PathOffset(s, n) ==
    IF n = 0 THEN [x |-> 0, y |-> 0]
    ELSE LET up == PathOffset(s, s.node[n].parent)
         IN [x |-> up.x + s.node[n].x, y |-> up.y + s.node[n].y]

\* the size of the analysed image: the slide scaled down to a width of 400,
\* the height rounded to the nearest integer (halves upwards)
ScaledSize(s) ==
    IF s.width <= 400 THEN [width |-> s.width, height |-> s.height]
    ELSE [width |-> 400,
          height |-> CHOOSE h \in 0..s.height :
                        /\ (2 * h - 1) * s.width <= 2 * 400 * s.height
                        /\ 2 * 400 * s.height < (2 * h + 1) * s.width]

\* the centre of text element n, scaled into analysis space, lies in region r
\* (its border included); all numbers are doubled to keep halves exact
CentreInRegion(s, n, r) ==
    LET cx2 == 2 * PathOffset(s, n).x + s.node[n].width
        cy2 == 2 * PathOffset(s, n).y + s.node[n].height
        img == ScaledSize(s)
    IN /\ 2 * r.x * s.width <= cx2 * img.width
       /\ cx2 * img.width <= 2 * (r.x + r.width) * s.width
       /\ 2 * r.y * s.height <= cy2 * img.height
       /\ cy2 * img.height <= 2 * (r.y + r.height) * s.height

InImageRegion(s, n, an) ==
    /\ an.present
    /\ \E r \in Range(an.regions) : r.type = "image" /\ CentreInRegion(s, n, r)

\* the text elements of the slide that extractSlideText returned / left out
ExtractedNodes == {result.ext.formattedText[k].node : k \in 1..Len(result.ext.formattedText)}

TextElements(s) == Range(FindAllTextNodes(s, 0, <<>>))

-----------------------------------------------------------------------------
(* The extraction run, code.ts:436-867.                                     *)
(*                                                                          *)
(* The host document is doc: whether figma.getSlideGrid exists, whether it  *)
(* throws, the grid it returns and the frames of the page.  A grid entry    *)
(* names one of the slides of SlideLib as its node, and says how the host   *)
(* behaves for it: whether exportAsync succeeds and whether processing it   *)
(* throws.                                                                  *)

\* sectionNumber / section / slideNumber / number left undefined on a grid entry
Undefined == 0

Node(parent, type, visible, locked, x, y, w, h, fontSize, characters) ==
    [parent |-> parent, type |-> type, visible |-> visible, locked |-> locked,
     x |-> x, y |-> y, width |-> w, height |-> h,
     fontSize |-> fontSize, characters |-> characters]

\* a slide 800 x 600 with a title, a text in a container in the right half, a
\* body text, and texts that are hidden, locked, or under a hidden or a
\* locked container
SlideA ==
    [width |-> 800, height |-> 600, n |-> 10,
     node |-> [i \in 0..10 |->
        CASE i = 0 -> Node(NoParent, "SLIDE", TRUE, FALSE, 0, 0, 800, 600, 0, "")
          [] i = 1 -> Node(0, "TEXT", TRUE, FALSE, 40, 300, 100, 20, 20, "body")
          [] i = 2 -> Node(0, "GROUP", TRUE, FALSE, 400, 0, 400, 600, 0, "")
          [] i = 3 -> Node(2, "TEXT", TRUE, FALSE, 20, 10, 100, 20, 20, "right")
          [] i = 4 -> Node(0, "TEXT", FALSE, FALSE, 40, 100, 100, 20, 20, "hidden")
          [] i = 5 -> Node(0, "TEXT", TRUE, TRUE, 40, 120, 100, 20, 20, "locked")
          [] i = 6 -> Node(0, "GROUP", FALSE, FALSE, 0, 0, 100, 100, 0, "")
          [] i = 7 -> Node(6, "TEXT", TRUE, FALSE, 40, 140, 100, 20, 20, "inHidden")
          [] i = 8 -> Node(0, "GROUP", TRUE, TRUE, 0, 0, 100, 100, 0, "")
          [] i = 9 -> Node(8, "TEXT", TRUE, FALSE, 40, 160, 100, 20, 20, "inLocked")
          [] i = 10 -> Node(0, "TEXT", TRUE, FALSE, 40, 20, 200, 40, 40, "title")]]

\* a slide with one visible text and one hidden text
SlideB ==
    [width |-> 100, height |-> 100, n |-> 2,
     node |-> [i \in 0..2 |->
        CASE i = 0 -> Node(NoParent, "SLIDE", TRUE, FALSE, 0, 0, 100, 100, 0, "")
          [] i = 1 -> Node(0, "TEXT", TRUE, FALSE, 10, 10, 50, 10, 16, "only")
          [] i = 2 -> Node(0, "TEXT", FALSE, FALSE, 10, 30, 50, 10, 16, "unseen")]]

SlideLib == <<SlideA, SlideB>>

\* what the visual-analysis collaborator may answer: an image region (in
\* analysis space) over the body text of SlideA and one column starting at 200
AnalysisLib ==
    {MkAnalysis(<<[x |-> 0, y |-> 140, width |-> 100, height |-> 30,
                   type |-> "image", confidence |-> 1]>>, <<200>>)}

\* a grid entry (slideNode); the node is the entry itself (slideNode.node || slideNode)
Entry(tree, visible, sectionNumber, section, slideNumber, number, exportOk, throws) ==
    [present |-> TRUE, tree |-> tree, visible |-> visible,
     sectionNumber |-> sectionNumber, section |-> section,
     slideNumber |-> slideNumber, number |-> number,
     exportOk |-> exportOk, throws |-> throws]

\* a null / undefined grid entry
EmptyEntry == [present |-> FALSE]

PlainA == Entry(1, TRUE, Undefined, Undefined, Undefined, Undefined, TRUE, "none")
PlainB == Entry(2, TRUE, Undefined, Undefined, Undefined, Undefined, FALSE, "none")
HiddenB == Entry(2, FALSE, Undefined, Undefined, Undefined, Undefined, FALSE, "none")
\* sectionNumber and slideNumber given by the host
AnnotatedB == Entry(2, TRUE, 3, Undefined, 1, Undefined, FALSE, "none")
\* section and number given under the alternate field names
AltAnnotatedB == Entry(2, TRUE, Undefined, 1, Undefined, 1, TRUE, "none")
\* figma.ui.postMessage throws when the analysis of this slide is requested
ThrowsAtRequestB == Entry(2, TRUE, Undefined, Undefined, Undefined, Undefined, TRUE, "request")
\* the tree walk or classification of this slide throws
ThrowsAtExtractB == Entry(2, TRUE, Undefined, Undefined, Undefined, Undefined, FALSE, "extract")

EntryKinds == {PlainA, PlainB, HiddenB, EmptyEntry, AnnotatedB, AltAnnotatedB,
               ThrowsAtRequestB, ThrowsAtExtractB}

Section(slides) == [isArray |-> TRUE, slides |-> slides]

\* a grid row that is null or not an array
NotASection == [isArray |-> FALSE, slides |-> <<>>]

Sections(n) == {Section(e) : e \in UNION {[1..k -> EntryKinds] : k \in 0..n}}

\* every grid of at most two rows with at most MaxEntries entries in all, and
\* grids with a row that is not an array
SmallGrids ==
    {<<>>} \cup {<<a>> : a \in Sections(MaxEntries)}
    \cup {<<a, b>> : <<a, b>> \in
             {q \in Sections(MaxEntries) \X Sections(MaxEntries) :
                 Len(q[1].slides) + Len(q[2].slides) <= MaxEntries}}
    \cup {<<NotASection, a>> : a \in Sections(1)}

\* grids that take more than one batch to process (BATCH_SIZE = 5) or to
\* collect (BATCH_SIZE = 50): three rows of 17 slides are 51
LargeGrids ==
    {<<Section(<<AnnotatedB, PlainB, PlainB>>), Section(<<PlainB, ThrowsAtExtractB, PlainB>>)>>,
     [r \in 1..3 |-> Section([k \in 1..((CollectBatchSize + 1) \div 3) |-> PlainB])],
     <<Section([k \in 1..(ProcessBatchSize + 1) |-> IF k = 2 THEN HiddenB ELSE PlainB])>>}

Grids == SmallGrids \cup LargeGrids

-----------------------------------------------------------------------------
(* collectSlideItemsFromGrid, code.ts:565-641 *)

Min(a, b) == IF a < b THEN a ELSE b

RECURSIVE SumLengths(_)
\* totalSlides: the lengths of the rows that are arrays, added up
SumLengths(grid) ==
    IF grid = <<>> THEN 0
    ELSE (IF Head(grid).isArray THEN Len(Head(grid).slides) ELSE 0) + SumLengths(Tail(grid))

\* the slide item pushed for entry e found at (sectionIndex, slideIndex), 0-based
SlideItem(e, sectionIndex, slideIndex) ==
    [node |-> [tree |-> e.tree, exportOk |-> e.exportOk, throws |-> e.throws,
               at |-> <<sectionIndex + 1, slideIndex + 1>>],
     sectionNumber |-> IF e.sectionNumber # Undefined THEN e.sectionNumber
                       ELSE IF e.section # Undefined THEN e.section
                       ELSE sectionIndex + 1,
     slideNumber |-> IF e.slideNumber # Undefined THEN e.slideNumber
                     ELSE IF e.number # Undefined THEN e.number
                     ELSE slideIndex + 1]

\* mutant: the test for hidden slides is missing
TakesEntryAlways(e) == e.present

\* if (slideNode) { ... if (node && node.visible !== false)
TakesEntry(e) == e.present /\ e.visible # FALSE

RECURSIVE CollectInner(_, _, _)
\* the inner while loop over one row; st0 = c with the field inBatch added
CollectInner(section, st0, batchSize) ==
    TheOne({IF st.slideIndex < Len(section.slides) /\ st.inBatch < batchSize
            THEN LET e == section.slides[st.slideIndex + 1]
                     taken == TakesEntry(e)
                 IN CollectInner(section,
                        [st EXCEPT !.slideItems = IF taken
                                                  THEN Append(@, SlideItem(e, st.sectionIndex, st.slideIndex))
                                                  ELSE @,
                                   !.collectedCount = IF taken THEN @ + 1 ELSE @,
                                   !.inBatch = IF taken THEN @ + 1 ELSE @,
                                   !.slideIndex = @ + 1],
                        batchSize)
            ELSE st : st \in {st0}})

RECURSIVE CollectOuter(_, _, _)
\* the outer while loop of collectBatch
CollectOuter(grid, st0, batchSize) ==
    TheOne({IF st.sectionIndex < Len(grid) /\ st.inBatch < batchSize
            THEN LET section == grid[st.sectionIndex + 1]
                 IN IF section.isArray
                    THEN TheOne({CollectOuter(grid,
                                    IF st1.slideIndex >= Len(section.slides)
                                    THEN [st1 EXCEPT !.sectionIndex = @ + 1, !.slideIndex = 0]
                                    ELSE st1,
                                    batchSize) : st1 \in {CollectInner(section, st, batchSize)}})
                    ELSE CollectOuter(grid, [st EXCEPT !.sectionIndex = @ + 1, !.slideIndex = 0],
                                      batchSize)
            ELSE st : st \in {st0}})

\* one call of collectBatch on the collection state c
CollectBatch(grid, c) ==
    LET st == CollectOuter(grid,
                  [from |-> c.from,
                   totalSlides |-> c.totalSlides, sectionIndex |-> c.sectionIndex,
                   slideIndex |-> c.slideIndex, collectedCount |-> c.collectedCount,
                   slideItems |-> c.slideItems, inBatch |-> 0],
                  CollectBatchSize)
    IN [from |-> st.from,
        totalSlides |-> st.totalSlides, sectionIndex |-> st.sectionIndex,
        slideIndex |-> st.slideIndex, collectedCount |-> st.collectedCount,
        slideItems |-> st.slideItems]

-----------------------------------------------------------------------------
(* processSlidesInBatches and requestSlideAnalysis, code.ts:436-562 *)

\* `slide-${item.sectionNumber}-${item.slideNumber}`
SlideId(item) == <<item.sectionNumber, item.slideNumber>>

CurrentItem == slideItems[proc.i + 1]

\* extractSlideText(slide, analysis) for every slide of the library and every
\* analysis the UI can answer with, or none
ExtractedTexts ==
    [t \in DOMAIN SlideLib |->
        [an \in AnalysisLib \cup {NoAnalysis} |-> ExtractSlideText(SlideLib[t], an)]]

\* the record pushed for slide item number k (1-based) with analysis an; item is
\* the index of the slide item it was made from (not a field of SlideData)
SlideRecord(k, an) ==
    LET item == slideItems[k]
        ext == ExtractedTexts[item.node.tree][an]
    IN [sectionNumber |-> item.sectionNumber,
        slideNumber |-> item.slideNumber,
        overallSlideNumber |-> 0,
        textContent |-> ext.plainText,
        formattedContent |-> ext.formattedText,
        analysis |-> an,
        item |-> k]

\* mutant: the comparator looks at slideNumber only
SortSlidesDataBySlideOnly(data) ==
    LET n == Len(data)
        Rank(i) == 1 + Cardinality({j \in 1..n :
                        \/ data[j].slideNumber < data[i].slideNumber
                        \/ (data[j].slideNumber = data[i].slideNumber /\ j < i)})
    IN [r \in 1..n |-> data[CHOOSE i \in 1..n : Rank(i) = r]]

\* slidesData.sort(...): a.sectionNumber - b.sectionNumber, then
\* a.slideNumber - b.slideNumber; stable
SortSlidesData(data) ==
    LET n == Len(data)
        Before(a, b) == \/ a.sectionNumber < b.sectionNumber
                        \/ (a.sectionNumber = b.sectionNumber /\ a.slideNumber < b.slideNumber)
        Rank(i) == 1 + Cardinality({j \in 1..n :
                        \/ Before(data[j], data[i])
                        \/ (~Before(data[i], data[j]) /\ j < i)})
    IN [r \in 1..n |-> data[CHOOSE i \in 1..n : Rank(i) = r]]

\* slidesData.forEach((slide, index) => slide.overallSlideNumber = index + 1)
NumberSlides(data) == [k \in 1..Len(data) |-> [data[k] EXCEPT !.overallSlideNumber = k]]

-----------------------------------------------------------------------------
(* extractSlidesFallback: the frame name patterns, code.ts:735-765.         *)
(*                                                                          *)
(* A frame name is a sequence of tokens, each a run of characters: the word *)
(* "section", the word "slide", the single letter "s" (all in any case, the *)
(* patterns carry the i flag), a run of digits (with its value), one of the *)
(* characters space, comma, hyphen, dot, or some other word "x" that holds  *)
(* none of these.  Adjacent tokens are adjacent in the name.                *)

Tok(t) == [t |-> t, v |-> 0]

Num(v) == [t |-> "num", v |-> v]

NoMatch == [ok |-> FALSE, a |-> 0, b |-> 0]

IsTok(name, i, kinds) == i <= Len(name) /\ name[i].t \in kinds

RECURSIVE SkipWhile(_, _, _)
\* the first index from i on whose token is not in kinds (a greedy X*)
SkipWhile(name, i, kinds) ==
    IF IsTok(name, i, kinds) THEN SkipWhile(name, i + 1, kinds) ELSE i

\* /[Ss]ection\s*(\d+)[\s,\-]+[Ss]lide\s*(\d+)/i matched at token i
Pattern1At(name, i) ==
    LET j == SkipWhile(name, i + 1, {" "})
        k == SkipWhile(name, j + 1, {" ", ",", "-"})
        m == SkipWhile(name, k + 1, {" "})
    IN IF /\ IsTok(name, i, {"Section"}) /\ IsTok(name, j, {"num"})
          /\ k > j + 1 /\ IsTok(name, k, {"Slide"}) /\ IsTok(name, m, {"num"})
       THEN [ok |-> TRUE, a |-> name[j].v, b |-> name[m].v]
       ELSE NoMatch

\* /[Ss](\d+)[\s,\-\.]+[Ss]?(\d+)/i matched at token i
Pattern2At(name, i) ==
    LET k == SkipWhile(name, i + 2, {" ", ",", "-", "."})
        m == IF IsTok(name, k, {"S"}) THEN k + 1 ELSE k
    IN IF /\ IsTok(name, i, {"S"}) /\ IsTok(name, i + 1, {"num"})
          /\ k > i + 2 /\ IsTok(name, m, {"num"})
       THEN [ok |-> TRUE, a |-> name[i + 1].v, b |-> name[m].v]
       ELSE NoMatch

\* /(\d+)\.(\d+)/ matched at token i
Pattern3At(name, i) ==
    IF IsTok(name, i, {"num"}) /\ IsTok(name, i + 1, {"."}) /\ IsTok(name, i + 2, {"num"})
    THEN [ok |-> TRUE, a |-> name[i].v, b |-> name[i + 2].v]
    ELSE NoMatch

\* /[Ss]lide\s*(\d+)/i matched at token i; section 1 is assumed
Pattern4At(name, i) ==
    LET j == SkipWhile(name, i + 1, {" "})
    IN IF IsTok(name, i, {"Slide"}) /\ IsTok(name, j, {"num"})
       THEN [ok |-> TRUE, a |-> 1, b |-> name[j].v]
       ELSE NoMatch

\* name.match(pattern): the leftmost match of pattern number p
MatchPattern(name, p) ==
    LET At(i) == CASE p = 1 -> Pattern1At(name, i)
                   [] p = 2 -> Pattern2At(name, i)
                   [] p = 3 -> Pattern3At(name, i)
                   [] p = 4 -> Pattern4At(name, i)
        hits == {i \in 1..Len(name) : At(i).ok}
    IN IF hits = {} THEN NoMatch
       ELSE At(CHOOSE i \in hits : \A j \in hits : i <= j)

\* mutant: the dotted number pair is tried before the S-prefixed pair
ParseFrameNameDotFirst(name) ==
    IF MatchPattern(name, 1).ok THEN MatchPattern(name, 1)
    ELSE IF MatchPattern(name, 3).ok THEN MatchPattern(name, 3)
    ELSE IF MatchPattern(name, 2).ok THEN MatchPattern(name, 2)
    ELSE MatchPattern(name, 4)

\* the if / else chain over the four patterns: the first that matches gives
\* the numbers
ParseFrameName(name) ==
    IF MatchPattern(name, 1).ok THEN MatchPattern(name, 1)
    ELSE IF MatchPattern(name, 2).ok THEN MatchPattern(name, 2)
    ELSE IF MatchPattern(name, 3).ok THEN MatchPattern(name, 3)
    ELSE MatchPattern(name, 4)

Frame(visible, name) ==
    [visible |-> visible, name |-> name, tree |-> 2, exportOk |-> FALSE, throws |-> "none"]

\* "Section 2 - Slide 1", "S1-S2", "Slide 3.4", "Slide 2", "x"
FrameNames ==
    {<<Tok("Section"), Tok(" "), Num(2), Tok(" "), Tok("-"), Tok(" "), Tok("Slide"), Tok(" "), Num(1)>>,
     <<Tok("S"), Num(1), Tok("-"), Tok("S"), Num(2)>>,
     <<Tok("Slide"), Tok(" "), Num(3), Tok("."), Num(4)>>,
     <<Tok("Slide"), Tok(" "), Num(2)>>,
     <<Tok("x")>>}

FrameKinds == {Frame(TRUE, nm) : nm \in FrameNames}
              \cup {Frame(FALSE, <<Tok("Slide"), Tok(" "), Num(2)>>)}

FrameLists == UNION {[1..k -> FrameKinds] : k \in 0..MaxFrames}

\* more frames than one analyzeBatch takes (BATCH_SIZE = 100)
ManyFrames ==
    [k \in 1..(AnalyzeBatchSize + 1) |->
        IF k = 1 \/ k = AnalyzeBatchSize + 1
        THEN Frame(TRUE, <<Tok("Slide"), Tok(" "), Num(k)>>)
        ELSE Frame(FALSE, <<Tok("x")>>)]

\* frames whose names match several patterns, or one pattern more than once:
\* "1.2 S3-4", "Slide5 Section2,Slide3", "Slide1 Slide2", "Section 7",
\* "S1 2", "Section0-Slide0", and a hidden "Section1-Slide1"
PriorityFrames ==
    <<Frame(TRUE, <<Num(1), Tok("."), Num(2), Tok(" "), Tok("S"), Num(3), Tok("-"), Num(4)>>),
      Frame(TRUE, <<Tok("Slide"), Num(5), Tok(" "), Tok("Section"), Num(2), Tok(","),
                    Tok("Slide"), Num(3)>>),
      Frame(TRUE, <<Tok("Slide"), Num(1), Tok(" "), Tok("Slide"), Num(2)>>),
      Frame(TRUE, <<Tok("Section"), Tok(" "), Num(7)>>),
      Frame(TRUE, <<Tok("S"), Num(1), Tok(" "), Num(2)>>),
      Frame(TRUE, <<Tok("Section"), Num(0), Tok("-"), Tok("Slide"), Num(0)>>),
      Frame(FALSE, <<Tok("Section"), Num(1), Tok("-"), Tok("Slide"), Num(1)>>)>>

\* the frames of a document that has a slide grid
DeckFrames == <<Frame(TRUE, <<Tok("Slide"), Tok(" "), Num(2)>>), Frame(TRUE, <<Tok("x")>>)>>

\* the names of the frames above, and what the pattern chain makes of each
AllFrameNames ==
    FrameNames \cup {ManyFrames[k].name : k \in DOMAIN ManyFrames}
               \cup {PriorityFrames[k].name : k \in DOMAIN PriorityFrames}
               \cup {DeckFrames[k].name : k \in DOMAIN DeckFrames}

ParsedNames == [name \in AllFrameNames |-> ParseFrameName(name)]

\* the slide item pushed for frame number k (1-based) of the page
FrameItem(frames, k) ==
    [node |-> [tree |-> frames[k].tree, exportOk |-> frames[k].exportOk,
               throws |-> frames[k].throws, at |-> <<0, k>>],
     sectionNumber |-> ParsedNames[frames[k].name].a,
     slideNumber |-> ParsedNames[frames[k].name].b]

\* one pass of the for loop of analyzeBatch over frames[from + 1 .. to]: the
\* visible frames whose name matches a pattern are pushed in page order
AnalyzeFrames(frames, from, to, items) ==
    TheOne({items \o [j \in 1..Len(order) |-> FrameItem(frames, order[j])] :
            order \in {SetToSeqAsc({k \in (from + 1)..to :
                           frames[k].visible # FALSE /\ ParsedNames[frames[k].name].ok})}})

Doc(hasGrid, gridResult, grid, frames) ==
    [hasGrid |-> hasGrid, gridResult |-> gridResult, grid |-> grid, frames |-> frames]

\* the documents: a slides file whose grid comes back (with any grid), one
\* whose getSlideGrid throws or returns null, and a file without getSlideGrid
Docs ==
    {Doc(TRUE, "ok", g, DeckFrames) : g \in Grids}
    \cup {Doc(TRUE, r, <<>>, f) : <<r, f>> \in {"ok", "null", "throws"} \X FrameLists}
    \cup {Doc(FALSE, "none", <<>>, f) : f \in FrameLists \cup {ManyFrames, PriorityFrames}}

-----------------------------------------------------------------------------
(* Specification Spec: one extraction run, from plugin start.               *)
(*                                                                          *)
(* pc is the point the run waits at: a pending timer ("timerStart",         *)
(* "timerGrid", "timerCollect", "timerFallback", "timerAnalyze",            *)
(* "timerProcess"), a pending host promise ("export", "loadPrompt"), the    *)
(* analysis wait ("waiting"), the loop of processBatch between two slides   *)
(* ("slide"), or "done".  Each action is one callback or one continuation   *)
(* up to its next await.                                                    *)

\* the startup IIFE has called extractAndSendSlides, which posted the first
\* progress message and set the 100 ms timer (code.ts:806-821, 920-921)
Init ==
    /\ pc = "timerStart"
    /\ doc \in Docs
    /\ cache = EmptyCache
    /\ requested = {}
    /\ col = NoCol
    /\ slideItems = <<>>
    /\ slidesData = <<>>
    /\ proc = NoProc
    /\ sink = <<>>
    /\ progress = FirstProgress
    /\ completed = 0
    /\ thrown = {}
    /\ cacheRun = EmptyCacheRun
    /\ run = 1
    /\ runs = 1
    /\ others = {}
    /\ storage = NoPrompt
    /\ promptReply = NoReply
    /\ startupLoad = TRUE
    /\ overlapped = FALSE
    /\ slide = SlideB
    /\ analysis = NoAnalysis
    /\ result = NoResult

\* onProgress(current, total, ...) as the last progress message of a callback
\* (code.ts:824-833); flip alternates with every callback that posts one, so
\* that two equal reports in a row are two messages
Post(current, total) ==
    progress' = [current |-> current, total |-> total, flip |-> 1 - progress.flip]

\* the completion callback of extractAndSendSlides (code.ts:834-858) up to
\* its await: the 'error' message, or the load of the saved prompt
Complete(data) ==
    /\ completed' = completed + 1
    /\ slidesData' = data
    /\ IF Len(data) = 0
       THEN /\ sink' = Append(sink, [type |-> "error", notSlidesFile |-> ~doc.hasGrid, run |-> run])
            /\ pc' = "done"
       ELSE /\ sink' = sink
            /\ pc' = "loadPrompt"

\* processSlidesInBatches(slideItems, ...) with at least one item, up to the
\* first await of processBatch (code.ts:497-513, 556-558)
StartProcessing(items) ==
    /\ slideItems' = items
    /\ slidesData' = <<>>
    /\ proc' = [currentIndex |-> 0, endIndex |-> Min(ProcessBatchSize, Len(items)), i |-> 0]
    /\ pc' = "slide"
    /\ Post(0, Len(items))
    /\ UNCHANGED <<sink, completed>>

\* extractSlidesFallback up to its setTimeout (code.ts:703-706)
StartFallback ==
    /\ pc' = "timerFallback"
    /\ Post(0, 0)
    /\ UNCHANGED <<slideItems, slidesData, proc, sink, completed>>

\* the 100 ms timer of extractAndSendSlides fires: extractAllSlidesData
\* (code.ts:644-696)
BeginExtraction ==
    /\ pc = "timerStart"
    /\ IF doc.hasGrid THEN pc' = "timerGrid" ELSE pc' = "timerFallback"
    /\ Post(0, 0)
    /\ UNCHANGED <<doc, cache, cacheRun, requested, col, slideItems, slidesData, proc, sink, completed, thrown>>
    /\ UNCHANGED pureVars
    /\ UNCHANGED sessVars

\* the end of a collectBatch call: schedule the next one, or hand the items
\* over (code.ts:631-637 and the callback at 668-679)
AfterCollect(c) ==
    /\ col' = c
    /\ IF c.collectedCount < c.totalSlides
       THEN /\ pc' = "timerCollect"
            /\ Post(c.collectedCount, c.totalSlides)
            /\ UNCHANGED <<slideItems, slidesData, proc, sink, completed>>
       ELSE IF Len(c.slideItems) = 0 THEN StartFallback
       ELSE StartProcessing(c.slideItems)

\* the 0 ms timer of extractAllSlidesData fires: getSlideGrid, the count of
\* the slides and the first collectBatch (code.ts:655-684, 570-590, 640)
AccessGrid ==
    /\ pc = "timerGrid"
    /\ IF doc.gridResult # "ok" \/ Len(doc.grid) = 0
       THEN col' = col /\ StartFallback
       ELSE IF SumLengths(doc.grid) = 0
       THEN col' = col /\ StartFallback
       ELSE \E c \in {CollectBatch(doc.grid, [NoCol EXCEPT !.from = "grid",
                                                               !.totalSlides = SumLengths(doc.grid)])} :
               AfterCollect(c)
    /\ UNCHANGED <<doc, cache, cacheRun, requested, thrown>>
    /\ UNCHANGED pureVars
    /\ UNCHANGED sessVars

\* setTimeout(collectBatch, 0) fires
CollectTimer ==
    /\ pc = "timerCollect"
    /\ \E c \in {CollectBatch(doc.grid, col)} : AfterCollect(c)
    /\ UNCHANGED <<doc, cache, cacheRun, requested, thrown>>
    /\ UNCHANGED pureVars
    /\ UNCHANGED sessVars

\* the timer of extractSlidesFallback fires: findAll and the first
\* analyzeBatch (code.ts:706-802)
AfterAnalyze(c) ==
    /\ col' = c
    /\ IF c.sectionIndex < Len(doc.frames)
       THEN /\ pc' = "timerAnalyze"
            /\ Post(c.sectionIndex, Len(doc.frames))
            /\ UNCHANGED <<slideItems, slidesData, proc, sink, completed>>
       ELSE IF Len(c.slideItems) = 0
       THEN Complete(<<>>) /\ Post(c.sectionIndex, Len(doc.frames))
            /\ UNCHANGED <<slideItems, proc>>
       ELSE StartProcessing(c.slideItems)

\* one call of analyzeBatch; frameIndex is kept in col.sectionIndex
AnalyzeBatch(c) ==
    LET endIndex == Min(c.sectionIndex + AnalyzeBatchSize, Len(doc.frames))
    IN [c EXCEPT !.slideItems = AnalyzeFrames(doc.frames, c.sectionIndex, endIndex, @),
                 !.sectionIndex = endIndex]

\* mutant: with no frame on the page the callback does not return after
\* completing, and the empty scan that follows completes once more
FallbackScanNoReturn ==
    /\ pc = "timerFallback"
    /\ IF Len(doc.frames) = 0
       THEN /\ col' = col
            /\ completed' = completed + 2
            /\ slidesData' = <<>>
            /\ sink' = sink \o <<[type |-> "error", notSlidesFile |-> ~doc.hasGrid, run |-> run],
                                 [type |-> "error", notSlidesFile |-> ~doc.hasGrid, run |-> run]>>
            /\ pc' = "done"
            /\ UNCHANGED <<slideItems, proc, progress>>
       ELSE \E c \in {AnalyzeBatch([NoCol EXCEPT !.from = "frames",
                                                 !.totalSlides = Len(doc.frames)])} :
               AfterAnalyze(c)
    /\ UNCHANGED <<doc, cache, cacheRun, requested, thrown>>
    /\ UNCHANGED pureVars
    /\ UNCHANGED sessVars

FallbackScan ==
    /\ pc = "timerFallback"
    /\ IF Len(doc.frames) = 0
       THEN col' = col /\ Complete(<<>>) /\ UNCHANGED <<slideItems, proc, progress>>
       ELSE \E c \in {AnalyzeBatch([NoCol EXCEPT !.from = "frames",
                                                 !.totalSlides = Len(doc.frames)])} :
               AfterAnalyze(c)
    /\ UNCHANGED <<doc, cache, cacheRun, requested, thrown>>
    /\ UNCHANGED pureVars
    /\ UNCHANGED sessVars

\* setTimeout(analyzeBatch, 0) fires
AnalyzeTimer ==
    /\ pc = "timerAnalyze"
    /\ \E c \in {AnalyzeBatch(col)} : AfterAnalyze(c)
    /\ UNCHANGED <<doc, cache, cacheRun, requested, thrown>>
    /\ UNCHANGED pureVars
    /\ UNCHANGED sessVars

\* mutant: the exception is not caught per slide and ends the run
SkipSlideAborts ==
    /\ slidesData' = slidesData
    /\ proc' = proc
    /\ thrown' = thrown \cup {proc.i + 1}
    /\ pc' = "done"

\* the slide throws: the catch of processBatch logs it and the loop goes on
\* (code.ts:526-528)
SkipSlide ==
    /\ slidesData' = slidesData
    /\ proc' = [proc EXCEPT !.i = @ + 1]
    /\ thrown' = thrown \cup {proc.i + 1}
    /\ pc' = "slide"

\* The rest of one loop iteration of processBatch once the analysis an is
\* known (code.ts:516-529): the record is pushed, unless extractSlideText
\* throws.
FinishSlide(an) ==
    IF CurrentItem.node.throws = "extract"
    THEN SkipSlide
    ELSE /\ \E r \in {SlideRecord(proc.i + 1, an)} : slidesData' = Append(slidesData, r)
         /\ proc' = [proc EXCEPT !.i = @ + 1]
         /\ thrown' = thrown
         /\ pc' = "slide"

\* the next iteration of the for loop of processBatch: requestSlideAnalysis
\* up to its first await, the cache lookup (code.ts:505-513, 436-443)
StartSlide ==
    /\ pc = "slide"
    /\ proc.i < proc.endIndex
    /\ IF SlideId(CurrentItem) \in DOMAIN cache
       THEN FinishSlide(cache[SlideId(CurrentItem)])
       ELSE pc' = "export" /\ UNCHANGED <<slidesData, proc, thrown>>
    /\ UNCHANGED <<doc, cache, cacheRun, requested, col, slideItems, sink, completed, progress>>
    /\ UNCHANGED pureVars
    /\ UNCHANGED sessVars

\* exportSlideImage resolves: null when exportAsync failed, else the request
\* is posted to the UI and the promise's first checkCache runs
\* (code.ts:443-488)
ExportDone ==
    /\ pc = "export"
    /\ IF ~CurrentItem.node.exportOk
       THEN FinishSlide(NoAnalysis) /\ requested' = requested
       ELSE IF CurrentItem.node.throws = "request"
       THEN SkipSlide /\ requested' = requested
       ELSE /\ requested' = requested \cup {[id |-> SlideId(CurrentItem),
                                              at |-> CurrentItem.node.at, run |-> run]}
            /\ IF SlideId(CurrentItem) \in DOMAIN cache
               THEN FinishSlide(cache[SlideId(CurrentItem)])
               ELSE pc' = "waiting" /\ UNCHANGED <<slidesData, proc, thrown>>
    /\ UNCHANGED <<doc, cache, cacheRun, col, slideItems, sink, completed, progress>>
    /\ UNCHANGED pureVars
    /\ UNCHANGED sessVars

\* a checkCache poll finds the result in the cache (code.ts:475-482)
PollHit ==
    /\ pc = "waiting"
    /\ SlideId(CurrentItem) \in DOMAIN cache
    /\ FinishSlide(cache[SlideId(CurrentItem)])
    /\ UNCHANGED <<doc, cache, cacheRun, requested, col, slideItems, sink, completed, progress>>
    /\ UNCHANGED pureVars
    /\ UNCHANGED sessVars

\* mutant: the timeout rejects, and the slide is lost to the catch of processBatch
AnalysisTimeoutRejects ==
    /\ pc = "waiting"
    /\ SkipSlide
    /\ UNCHANGED <<doc, cache, cacheRun, requested, col, slideItems, sink, completed, progress>>
    /\ UNCHANGED pureVars
    /\ UNCHANGED sessVars

\* the 200 ms timeout fires before a poll has resolved (code.ts:467-473)
AnalysisTimeout ==
    /\ pc = "waiting"
    /\ FinishSlide(NoAnalysis)
    /\ UNCHANGED <<doc, cache, cacheRun, requested, col, slideItems, sink, completed, progress>>
    /\ UNCHANGED pureVars
    /\ UNCHANGED sessVars

\* some call of requestSlideAnalysis is waiting for the analysis of slide id
Awaited(id) ==
    \/ pc = "waiting" /\ SlideId(CurrentItem) = id
    \/ \E c \in others : c.pc = "waiting" /\ SlideId(c.slideItems[c.proc.i + 1]) = id

\* figma.ui.onmessage with a 'slide-analysis-result' (code.ts:880-886): the UI
\* answers a request it was sent, with an analysis or with none.  A message is
\* a task of its own: it does not run between two continuations of
\* processBatch.
OnAnalysisResult ==
    /\ pc # "slide"
    /\ \E req \in requested, id \in {q.id : q \in requested},
          an \in AnalysisLib \cup {NoAnalysis} :
          /\ id = req.id
          /\ requested' = requested \ {req}
          /\ cache' = IF an.present
                      THEN [k \in DOMAIN cache \cup {id} |-> IF k = id THEN an ELSE cache[k]]
                      ELSE cache
          /\ cacheRun' = IF an.present
                         THEN [k \in DOMAIN cache \cup {id} |->
                                  IF k = id THEN [run |-> runs, late |-> ~Awaited(id),
                                                  at |-> req.at, req |-> req.run]
                                  ELSE cacheRun[k]]
                         ELSE cacheRun
    /\ UNCHANGED <<pc, doc, col, slideItems, slidesData, proc, sink, completed, progress, thrown>>
    /\ UNCHANGED pureVars
    /\ UNCHANGED sessVars

\* the end of processBatch: progress, then the next batch is scheduled, or the
\* records are sorted, numbered and handed over (code.ts:532-553)
EndBatch ==
    /\ pc = "slide"
    /\ proc.i = proc.endIndex
    /\ IF proc.endIndex < Len(slideItems)
       THEN /\ proc' = [proc EXCEPT !.currentIndex = proc.endIndex]
            /\ pc' = "timerProcess"
            /\ UNCHANGED <<slidesData, sink, completed>>
       ELSE /\ proc' = [proc EXCEPT !.currentIndex = proc.endIndex]
            /\ \E data \in {NumberSlides(SortSlidesData(slidesData))} : Complete(data)
    /\ Post(proc.endIndex, Len(slideItems))
    /\ UNCHANGED <<doc, cache, cacheRun, requested, col, slideItems, thrown>>
    /\ UNCHANGED pureVars
    /\ UNCHANGED sessVars

\* mutant: the next increment takes all the items that are left
ProcessTimerWholeRest ==
    /\ pc = "timerProcess"
    /\ proc' = [proc EXCEPT !.endIndex = Len(slideItems), !.i = proc.currentIndex]
    /\ pc' = "slide"
    /\ UNCHANGED <<doc, cache, cacheRun, requested, col, slideItems, slidesData, sink, completed, progress, thrown>>
    /\ UNCHANGED pureVars
    /\ UNCHANGED sessVars

\* setTimeout(processBatch, 0) fires
ProcessTimer ==
    /\ pc = "timerProcess"
    /\ proc' = [proc EXCEPT !.endIndex = Min(proc.currentIndex + ProcessBatchSize,
                                              Len(slideItems)),
                            !.i = proc.currentIndex]
    /\ pc' = "slide"
    /\ UNCHANGED <<doc, cache, cacheRun, requested, col, slideItems, slidesData, sink, completed, progress, thrown>>
    /\ UNCHANGED pureVars
    /\ UNCHANGED sessVars

\* figma.clientStorage.getAsync settles (code.ts:850-856): the 'data' message
\* is posted, or the promise was rejected and nothing is
PromptLoaded ==
    /\ pc = "loadPrompt"
    /\ \E ok \in BOOLEAN :
          sink' = IF ok THEN Append(sink, [type |-> "data", data |-> slidesData,
                                          systemPrompt |-> OrNull(storage), run |-> run]) ELSE sink
    /\ pc' = "done"
    /\ UNCHANGED <<doc, cache, cacheRun, requested, col, slideItems, slidesData, proc, completed, progress, thrown>>
    /\ UNCHANGED pureVars
    /\ UNCHANGED sessVars

Next ==
    \/ BeginExtraction
    \/ AccessGrid
    \/ CollectTimer
    \/ FallbackScan
    \/ AnalyzeTimer
    \/ StartSlide
    \/ ExportDone
    \/ PollHit
    \/ AnalysisTimeout
    \/ OnAnalysisResult
    \/ EndBatch
    \/ ProcessTimer
    \/ PromptLoaded

Spec == Init /\ [][Next]_vars

\* Timers fire, host promises settle and continuations run; the UI need not
\* answer an analysis request.
Fairness ==
    /\ WF_vars(BeginExtraction)
    /\ WF_vars(AccessGrid)
    /\ WF_vars(CollectTimer)
    /\ WF_vars(FallbackScan)
    /\ WF_vars(AnalyzeTimer)
    /\ WF_vars(StartSlide)
    /\ WF_vars(ExportDone)
    /\ WF_vars(AnalysisTimeout)
    /\ WF_vars(EndBatch)
    /\ WF_vars(ProcessTimer)
    /\ WF_vars(PromptLoaded)

FairSpec == Spec /\ Fairness

-----------------------------------------------------------------------------
(* Specification SpecSession: the plug-in from its start, with the          *)
(* 'update-context' messages of the UI.                                     *)
(*                                                                          *)
(* Every call of extractAndSendSlides makes closures of its own over         *)
(* slideItems, slidesData, the indices and the callbacks; analysisCache, the *)
(* document and the UI are shared.  pc, col, slideItems, slidesData, proc,   *)
(* completed and thrown are those of the call whose task runs; others holds  *)
(* the same for every other call that still has a timer or a promise         *)
(* pending, and Resume makes one of them the call whose task runs next.      *)

\* the call whose task runs, as it is kept while another call's task runs
ThisCall ==
    [pc |-> pc, col |-> col, slideItems |-> slideItems, slidesData |-> slidesData,
     proc |-> proc, completed |-> completed, thrown |-> thrown, run |-> run]

\* a call that has reached its end has nothing pending
Pending == IF pc = "done" THEN {} ELSE {ThisCall}

\* documents of the session: a slide that has its analysis requested, a
\* hidden slide in the grid, more slides than one batch, and files without
\* slide grid
SessionDocs ==
    {Doc(TRUE, "ok", <<Section(<<PlainA>>)>>, DeckFrames),
     Doc(TRUE, "ok", <<Section(<<PlainB, HiddenB>>)>>, DeckFrames),
     Doc(TRUE, "ok", <<Section(<<AnnotatedB, PlainB, PlainB>>),
                       Section(<<PlainB, ThrowsAtExtractB, PlainB>>)>>, DeckFrames),
     Doc(FALSE, "none", <<>>, DeckFrames),
     Doc(FALSE, "none", <<>>, <<>>),
     Doc(FALSE, "none", <<>>, ManyFrames)}

\* the startup call of extractAndSendSlides (code.ts:920-921) up to its timer
InitSession ==
    /\ Init
    /\ doc \in SessionDocs

\* figma.ui.onmessage with 'update-context' (code.ts:877-879): a further call
\* of extractAndSendSlides, up to its timer (code.ts:806-821); nothing looks
\* at the calls before it
UpdateContext ==
    /\ pc # "slide"
    /\ runs < MaxRuns
    /\ others' = others \cup Pending
    /\ overlapped' = (overlapped \/ others \cup Pending # {})
    /\ runs' = runs + 1
    /\ run' = runs + 1
    /\ pc' = "timerStart"
    /\ col' = NoCol
    /\ slideItems' = <<>>
    /\ slidesData' = <<>>
    /\ proc' = NoProc
    /\ completed' = 0
    /\ thrown' = {}
    /\ Post(0, 0)
    /\ UNCHANGED <<doc, cache, cacheRun, requested, sink, storage, promptReply, startupLoad>>
    /\ UNCHANGED pureVars

\* the next task is a timer or a continuation of the call c
Resume(c) ==
    /\ pc # "slide"
    /\ c \in others
    /\ others' = (others \ {c}) \cup Pending
    /\ pc' = c.pc
    /\ col' = c.col
    /\ slideItems' = c.slideItems
    /\ slidesData' = c.slidesData
    /\ proc' = c.proc
    /\ completed' = c.completed
    /\ thrown' = c.thrown
    /\ run' = c.run
    /\ UNCHANGED <<doc, cache, cacheRun, requested, sink, progress, runs, storage,
                   promptReply, startupLoad, overlapped>>
    /\ UNCHANGED pureVars

\* the variables of the extraction runs, which the prompt handlers leave alone
extractionVars ==
    <<pc, doc, cache, cacheRun, requested, col, slideItems, slidesData, proc, sink,
      progress, completed, thrown, run, runs, others, overlapped>>

\* figma.ui.onmessage with 'save-system-prompt' (code.ts:887-901): setAsync
\* stores the prompt, or fails; the reply tells which
SavePrompt ==
    /\ pc # "slide"
    /\ \E prompt \in {"p"}, ok \in BOOLEAN :
          /\ storage' = IF ok THEN prompt ELSE storage
          /\ promptReply' = [type |-> "system-prompt-saved", success |-> ok]
    /\ UNCHANGED extractionVars
    /\ UNCHANGED startupLoad
    /\ UNCHANGED pureVars

\* figma.ui.onmessage with 'load-system-prompt' (code.ts:902-916): the reply
\* carries the stored prompt, or null when there is none or getAsync fails
LoadPrompt ==
    /\ pc # "slide"
    /\ \E ok \in BOOLEAN :
          promptReply' = [type |-> "system-prompt-loaded",
                          prompt |-> IF ok THEN OrNull(storage) ELSE "null"]
    /\ UNCHANGED extractionVars
    /\ UNCHANGED <<storage, startupLoad>>
    /\ UNCHANGED pureVars

\* the prompt load of the startup code settles (code.ts:922-931): the stored
\* prompt is posted, or the failure is ignored
StartupPromptLoaded ==
    /\ pc # "slide"
    /\ startupLoad
    /\ startupLoad' = FALSE
    /\ \E ok \in BOOLEAN :
          promptReply' = IF ok
                         THEN [type |-> "system-prompt-loaded", prompt |-> OrNull(storage)]
                         ELSE promptReply
    /\ UNCHANGED extractionVars
    /\ UNCHANGED storage
    /\ UNCHANGED pureVars

NextSession ==
    \/ Next
    \/ UpdateContext
    \/ \E c \in others : Resume(c)

SpecSession == InitSession /\ [][NextSession]_vars

\* Specification SpecPrompt: the plug-in from its start, with the prompt
\* messages of the UI and the prompt load of the startup code
NextPrompt ==
    \/ Next
    \/ SavePrompt
    \/ LoadPrompt
    \/ StartupPromptLoaded

SpecPrompt == InitSession /\ [][NextPrompt]_vars

-----------------------------------------------------------------------------
(* Properties of the extraction run *)

\* C1: every extraction run eventually reaches Done: for every slide grid the
\* completion callback is eventually invoked, given that timers fire and host
\* promises settle.
C1_EventuallyDone == <>(completed > 0)

\* the grid positions (row, column, 1-based) before the collection cursor c
ScannedPositions(grid, c) ==
    {q \in (1..Len(grid)) \X (1..CollectBatchSize + 1) :
        /\ grid[q[1]].isArray
        /\ q[2] <= Len(grid[q[1]].slides)
        /\ \/ q[1] <= c.sectionIndex
           \/ (q[1] = c.sectionIndex + 1 /\ q[2] <= c.slideIndex)}

\* the positions among ps that hold a non-empty entry with visible # false
VisiblePositions(grid, ps) ==
    {q \in ps : grid[q[1]].slides[q[2]].present /\ grid[q[1]].slides[q[2]].visible # FALSE}

\* the positions of a set in grid order (row, then column)
InGridOrder(ps) ==
    [r \in 1..Cardinality(ps) |->
        CHOOSE q \in ps :
            Cardinality({o \in ps : o[1] < q[1] \/ (o[1] = q[1] /\ o[2] < q[2])}) = r - 1]

\* the explicit number of an entry under either field name, else the index
NumberOr(primary, alternate, index) ==
    IF primary # Undefined THEN primary
    ELSE IF alternate # Undefined THEN alternate
    ELSE index

\* what the claim expects for the entry at position q
ExpectedItem(grid, q) ==
    LET e == grid[q[1]].slides[q[2]]
    IN [at |-> q,
        sectionNumber |-> NumberOr(e.sectionNumber, e.section, q[1]),
        slideNumber |-> NumberOr(e.slideNumber, e.number, q[2])]

ItemsSeen(items) ==
    [k \in 1..Len(items) |->
        [at |-> items[k].node.at, sectionNumber |-> items[k].sectionNumber,
         slideNumber |-> items[k].slideNumber]]

ExpectedItems(grid, ps) ==
    LET order == InGridOrder(VisiblePositions(grid, ps))
    IN [k \in 1..Len(order) |-> ExpectedItem(grid, order[k])]

CollectionComplete == col.from = "grid" /\ col.collectedCount >= col.totalSlides

\* C2: grid collection skips hidden slides.  The items collected so far are
\* the non-empty entries with visible # false among the entries scanned, in
\* grid order, each with its explicit section/slide number or else its 1-based
\* row/column index; when collection completes, the items handed on are those
\* of the whole grid.
C2_CollectsVisibleInGridOrder ==
    /\ col.from = "grid" =>
          ItemsSeen(col.slideItems) =
              ExpectedItems(doc.grid, ScannedPositions(doc.grid, col))
    /\ CollectionComplete =>
          /\ slideItems = col.slideItems
          /\ ItemsSeen(slideItems) =
                ExpectedItems(doc.grid,
                    ScannedPositions(doc.grid, [col EXCEPT !.sectionIndex = Len(doc.grid)]))

\* a completed collection of two or more items, one numbered explicitly and
\* one numbered by its row and column
C2_Witness ==
    /\ CollectionComplete
    /\ Len(slideItems) >= 2
    /\ \E k \in 1..Len(slideItems) : slideItems[k].sectionNumber # slideItems[k].node.at[1]
    /\ \E k \in 1..Len(slideItems) :
          /\ slideItems[k].node.at[2] = 2
          /\ slideItems[k].slideNumber = 2

RunComplete == completed > 0

KeyLess(a, b) ==
    \/ a.sectionNumber < b.sectionNumber
    \/ (a.sectionNumber = b.sectionNumber /\ a.slideNumber < b.slideNumber)

\* C3: when a run completes with N records their overallSlideNumber values are
\* 1..N, each once, and a record with a smaller (sectionNumber, slideNumber)
\* has a smaller overallSlideNumber, whatever the order of collection; the
\* 'data' message carries these records.
C3_DenseOrderedNumbering ==
    RunComplete =>
        /\ \A k \in 1..Len(slidesData) : slidesData[k].overallSlideNumber = k
        /\ \A i, j \in 1..Len(slidesData) :
              KeyLess(slidesData[i], slidesData[j]) =>
                  slidesData[i].overallSlideNumber < slidesData[j].overallSlideNumber
        /\ \A m \in Range(sink) : m.type = "data" => m.data = slidesData

\* a completed run in which the record numbered 1 was collected after the
\* record numbered 2
C3_Witness ==
    /\ pc = "done"
    /\ Len(slidesData) >= 2
    /\ slidesData[1].item > slidesData[2].item
    /\ \E m \in Range(sink) : m.type = "data"

\* the tree of the slide that record r was extracted from
RecordSlide(r) == SlideLib[slideItems[r.item].node.tree]

\* C7: every text of a record's plainText / formattedText comes from a text
\* element that is visible and unlocked and has no hidden ancestor up to the
\* slide; no text of a hidden or locked element appears in a record.
C7_RecordTextsVisibleUnlocked ==
    \A k \in 1..Len(slidesData) :
        LET r == slidesData[k]
            t == RecordSlide(r)
        IN /\ Len(r.textContent) = Len(r.formattedContent)
           /\ \A j \in 1..Len(r.formattedContent) :
                 LET n == r.formattedContent[j].node
                 IN /\ r.textContent[j] = t.node[n].characters
                    /\ r.formattedContent[j].text = t.node[n].characters
                    /\ t.node[n].type = "TEXT"
                    /\ t.node[n].locked # TRUE
                    /\ \A a \in PathTo(t, n) : t.node[a].visible # FALSE
           /\ \A n \in 1..t.n :
                 (t.node[n].visible = FALSE \/ t.node[n].locked = TRUE)
                     => t.node[n].characters \notin Range(r.textContent)

\* a record with texts, extracted from a slide that also holds a hidden and a
\* locked text element
C7_Witness ==
    \E k \in 1..Len(slidesData) :
        /\ Len(slidesData[k].textContent) >= 2
        /\ \E n \in 1..RecordSlide(slidesData[k]).n :
              /\ RecordSlide(slidesData[k]).node[n].type = "TEXT"
              /\ RecordSlide(slidesData[k]).node[n].visible = FALSE
        /\ \E n \in 1..RecordSlide(slidesData[k]).n :
              /\ RecordSlide(slidesData[k]).node[n].type = "TEXT"
              /\ RecordSlide(slidesData[k]).node[n].locked = TRUE

\* a completed run has one record for every slide item that did not throw and
\* none for one that did, sorted and numbered
FailuresIsolated ==
    /\ (pc = "done" /\ Len(slideItems) > 0) => RunComplete
    /\ (RunComplete /\ Len(slideItems) > 0) =>
          /\ {slidesData[k].item : k \in 1..Len(slidesData)} = (1..Len(slideItems)) \ thrown
          /\ Len(slidesData) = Len(slideItems) - Cardinality(thrown)
          /\ \A k \in 1..Len(slidesData) : slidesData[k].overallSlideNumber = k
          /\ \A i, j \in 1..Len(slidesData) : i < j => ~KeyLess(slidesData[j], slidesData[i])

\* C10: per-slide failure isolation.  A slide whose processing threw (in the
\* analysis request or in the extraction of its texts) has no record, every
\* other slide item has exactly one, and a run that has slide items to process
\* still completes, with its records sorted and numbered.
C10_FailureIsolation ==
    /\ []FailuresIsolated
    /\ (Len(slideItems) > 0) ~> RunComplete

\* a completed run in which one slide threw and another slide, processed
\* after it, has its record
C10_Witness ==
    /\ pc = "done"
    /\ RunComplete
    /\ \E t \in thrown : \E k \in 1..Len(slidesData) : slidesData[k].item > t

\* the absolute position of node n of slide t, and its band under the default
\* policy: left of 0.4 * width, or from there on
BandOf(t, n) == IF GetAbsolutePosition(t, n).x * 10 < t.width * 4 THEN 1 ELSE 2

\* record r lists the text elements of its slide that the walk finds, none
\* left out, the left band first and each band from top to bottom
TwoBandOrdered(r) ==
    LET t == RecordSlide(r)
        at(j) == r.formattedContent[j].node
    IN /\ {at(j) : j \in 1..Len(r.formattedContent)} =
             {n \in 1..t.n : /\ t.node[n].type = "TEXT"
                             /\ \A a \in PathTo(t, n) :
                                   t.node[a].visible # FALSE /\ t.node[a].locked # TRUE}
       /\ \A j, k \in 1..Len(r.formattedContent) :
             j < k => \/ BandOf(t, at(j)) < BandOf(t, at(k))
                      \/ /\ BandOf(t, at(j)) = BandOf(t, at(k))
                         /\ GetAbsolutePosition(t, at(j)).y <= GetAbsolutePosition(t, at(k)).y

\* the step that ends the wait for the analysis of slide item proc.i + 1: the
\* loop of processBatch moves on by one item, which has its record, made with
\* the cached analysis or with none
WaitResolves ==
    LET k == proc.i + 1
        id == SlideId(slideItems[k])
    IN /\ proc'.i = k
       /\ \/ /\ slideItems[k].node.throws = "extract"
             /\ slidesData' = slidesData
             /\ thrown' = thrown \cup {k}
          \/ /\ Len(slidesData') = Len(slidesData) + 1
             /\ SubSeq(slidesData', 1, Len(slidesData)) = slidesData
             /\ slidesData'[Len(slidesData')].item = k
             /\ \/ /\ id \in DOMAIN cache
                   /\ slidesData'[Len(slidesData')].analysis = cache[id]
                \/ /\ slidesData'[Len(slidesData')].analysis = NoAnalysis
                   /\ TwoBandOrdered(slidesData'[Len(slidesData')])

\* C11: the analysis wait is bounded.  Once the request is posted the wait
\* always ends, and ends once: with the cached result, or with none when the
\* 200 ms timeout fires first; with none the slide still has its record, its
\* texts in the order of the default two bands (left of 0.4 * width first).
C11_AnalysisWaitBounded ==
    /\ [][(pc = "waiting" /\ pc' # "waiting") => WaitResolves]_vars
    /\ (pc = "waiting") ~> (pc # "waiting")

\* a slide whose analysis was requested and timed out has its record, with
\* texts of both bands
C11_Witness ==
    \E k \in 1..Len(slidesData) :
        /\ slideItems[slidesData[k].item].node.exportOk
        /\ slidesData[k].analysis = NoAnalysis
        /\ Len(slidesData[k].textContent) >= 3

\* the calls of extractAndSendSlides between their start and their final result
ActiveRuns == Cardinality(others) + (IF pc = "done" THEN 0 ELSE 1)

\* C12: at most one extraction run is active at any time, whatever messages
\* the UI sends and whenever it sends them.
C12_SingleActiveRun == ActiveRuns <= 1

\* the slide grid gives the run nothing to process: the provider is missing,
\* throws, returns null or an empty grid, or no entry of the grid is a slide
\* that is not hidden
SourceUnavailable ==
    \/ ~doc.hasGrid
    \/ doc.gridResult # "ok"
    \/ VisiblePositions(doc.grid,
           {q \in (1..Len(doc.grid)) \X (1..CollectBatchSize + 1) :
               doc.grid[q[1]].isArray /\ q[2] <= Len(doc.grid[q[1]].slides)}) = {}

\* this step posts an 'error' message to the result sink
ErrorPosted == Len(sink') = Len(sink) + 1 /\ sink'[Len(sink')].type = "error"

\* C13: source-unavailable fallback.  Whenever the slide grid provider is
\* missing, throws, returns null or empty, or yields no slide item, the run
\* switches to the frame-name locator, and an 'error' message reaches the
\* result sink only from that locator (none for the missing grid alone).
C13_FallbackOnUnavailable ==
    /\ [][(SourceUnavailable /\ ErrorPosted) => pc \in {"timerFallback", "timerAnalyze"}]_vars
    /\ (pc = "timerStart" /\ SourceUnavailable) ~> (pc = "timerFallback")

\* the 'error' and the 'data' messages in the result sink
Errors == {k \in 1..Len(sink) : sink[k].type = "error"}

DataMessages == {k \in 1..Len(sink) : sink[k].type = "data"}

\* C14: no-slides reporting.  A run posts an 'error' message exactly when its
\* final record set is empty, once, at its end and never per slide; the
\* message says the document is not a slides file exactly when the slide grid
\* provider is absent; a run with records posts one 'data' message with them
\* and no 'error'.
C14_NoSlidesReporting ==
    /\ Cardinality(Errors) <= 1
    /\ \A k \in Errors :
          /\ RunComplete
          /\ slidesData = <<>>
          /\ ~doc.hasGrid => sink[k].notSlidesFile
    /\ pc = "done" =>
          IF slidesData = <<>>
          THEN Cardinality(Errors) = 1 /\ DataMessages = {}
          ELSE /\ Errors = {}
               /\ Cardinality(DataMessages) = 1
               /\ \A k \in DataMessages : sink[k].data = slidesData

\* C15: a persistence failure leaves the run unaffected.  Whether saving or
\* loading the prompt fails or not, on startup, on a request of the UI or
\* after the extraction, a run that found slides delivers its records, sorted
\* and numbered, to the result sink.
C15_RecordsDelivered ==
    (pc = "done" /\ Len(slideItems) > 0 /\ slidesData # <<>>) =>
        \E k \in 1..Len(sink) :
            /\ sink[k].type = "data"
            /\ sink[k].data = slidesData
            /\ \A j \in 1..Len(slidesData) : slidesData[j].overallSlideNumber = j

\* the plainText of each record of a 'data' message, in the order delivered
PlainTexts(m) == [j \in 1..Len(m.data) |-> m.data[j].textContent]

\* the analysis collaborator has answered no request within its timeout window
NoAnswerInWindow == \A id \in DOMAIN cache : cacheRun[id].late

\* C16: idempotence.  Extraction runs that follow one another over the
\* unchanged document, in each of which the analysis collaborator behaves the
\* same way within the timeout windows (here: it answers in none of them),
\* deliver the same plainText for every slide.
C16_Idempotence ==
    (~overlapped /\ NoAnswerInWindow) =>
        \A j, k \in DataMessages : PlainTexts(sink[j]) = PlainTexts(sink[k])

\* the step returns a cached analysis from requestSlideAnalysis: the call
\* that runs pushes a record made with the cache entry of its current item
ServedFromCache ==
    /\ run' = run
    /\ pc \in {"slide", "export", "waiting"}
    /\ Len(slidesData') = Len(slidesData) + 1
    /\ slidesData'[Len(slidesData')].analysis.present

\* C18: an analysis result is cached for the lifetime of one extraction run.
\* A cache entry that requestSlideAnalysis returns in a run was written
\* during that run, never during or after an earlier one (the runs following
\* one another, none started before the one before it had ended).
C18_CacheLivesOneRun ==
    [][(~overlapped /\ ServedFromCache) => cacheRun[SlideId(CurrentItem)].run >= run]_vars

\* the step is a progress report of processBatch (the end of an increment)
ProcessingReport == pc = "slide" /\ progress' # progress

\* C21: processing progress protocol.  An increment of processSlidesInBatches
\* handles at most 5 slide items; after it (current, total) is reported, with
\* current the number of items handled so far, greater than in the report
\* before and at most total; if items are left the run then waits for a timer,
\* and the first item of an increment is only started from that timer; the
\* report of the last increment has current = total and no report follows the
\* completion callback.
C21_ProcessingProgress ==
    /\ [][ProcessingReport =>
             /\ progress'.current > progress.current
             /\ progress'.current - progress.current <= 5
             /\ progress'.current <= progress'.total
             /\ progress'.total = Len(slideItems)
             /\ progress'.current = Len(slidesData) + Cardinality(thrown)
             /\ progress'.current < progress'.total =>
                    pc' = "timerProcess" /\ completed' = completed
             /\ progress'.current = progress'.total => completed' = completed + 1]_vars
    /\ [][(pc' = "slide" /\ proc'.i = progress'.current /\ proc'.i > 0
             /\ proc'.i < Len(slideItems))
           => pc = "timerProcess"]_vars
    /\ [][(completed' > completed /\ Len(slideItems) > 0) =>
             ProcessingReport /\ progress'.current = progress'.total]_vars
    /\ [][completed > 0 => progress' = progress]_vars

\* a run of more than two increments whose last increment was a partial one
C21_Witness ==
    /\ RunComplete
    /\ Len(slideItems) > 10
    /\ Len(slideItems) % 5 # 0
    /\ progress.current = Len(slideItems)
    /\ thrown = {}

\* the tokens of name from lo to hi are all of the given kinds
Gap(name, lo, hi, kinds) == \A q \in lo..hi : name[q].t \in kinds

\* the places where a naming pattern occurs in a name, with the section and
\* slide number read there.  1: "Section <n>", separators (space, comma,
\* hyphen), "Slide <m>".  2: "S<n>", separators (or dot), "<m>" or "S<m>".
\* 3: "<n>.<m>".  4: "Slide <m>", section 1.
Occurrences1(name) ==
    {[at |-> q[1], a |-> name[q[2]].v, b |-> name[q[4]].v] :
        q \in {r \in (1..Len(name)) \X (1..Len(name)) \X (1..Len(name)) \X (1..Len(name)) :
                  /\ r[1] < r[2] /\ r[2] + 1 < r[3] /\ r[3] < r[4]
                  /\ name[r[1]].t = "Section" /\ Gap(name, r[1] + 1, r[2] - 1, {" "})
                  /\ name[r[2]].t = "num"
                  /\ Gap(name, r[2] + 1, r[3] - 1, {" ", ",", "-"})
                  /\ name[r[3]].t = "Slide" /\ Gap(name, r[3] + 1, r[4] - 1, {" "})
                  /\ name[r[4]].t = "num"}}

Occurrences2(name) ==
    {[at |-> q[1], a |-> name[q[1] + 1].v, b |-> name[q[2]].v] :
        q \in {r \in (1..Len(name)) \X (1..Len(name)) :
                  /\ r[1] + 2 < r[2]
                  /\ name[r[1]].t = "S" /\ name[r[1] + 1].t = "num"
                  /\ name[r[2]].t = "num"
                  /\ \/ Gap(name, r[1] + 2, r[2] - 1, {" ", ",", "-", "."})
                     \/ /\ r[1] + 3 < r[2]
                        /\ Gap(name, r[1] + 2, r[2] - 2, {" ", ",", "-", "."})
                        /\ name[r[2] - 1].t = "S"}}

Occurrences3(name) ==
    {[at |-> i, a |-> name[i].v, b |-> name[i + 2].v] :
        i \in {r \in 1..(Len(name) - 2) :
                  name[r].t = "num" /\ name[r + 1].t = "." /\ name[r + 2].t = "num"}}

Occurrences4(name) ==
    {[at |-> q[1], a |-> 1, b |-> name[q[2]].v] :
        q \in {r \in (1..Len(name)) \X (1..Len(name)) :
                  /\ r[1] < r[2]
                  /\ name[r[1]].t = "Slide" /\ Gap(name, r[1] + 1, r[2] - 1, {" "})
                  /\ name[r[2]].t = "num"}}

PatternOccurrences(name) ==
    <<Occurrences1(name), Occurrences2(name), Occurrences3(name), Occurrences4(name)>>

\* the numbers a frame name stands for: those at the leftmost occurrence of
\* the first of the four patterns that occurs in it at all
NameNumbers ==
    [name \in AllFrameNames |->
        LET occ == PatternOccurrences(name)
            first == {p \in 1..4 : occ[p] # {} /\ \A o \in 1..(p - 1) : occ[o] = {}}
        IN {h \in UNION {occ[p] : p \in first} :
               \A g \in UNION {occ[p] : p \in first} : h.at <= g.at}]

\* the frames among the first n of the page that make a slide item
SlideFrames(frames, n) ==
    {k \in 1..n : frames[k].visible # FALSE /\ NameNumbers[frames[k].name] # {}}

\* the slide items expected from the first n frames, in page order
ExpectedFrameItems(frames, n) ==
    [j \in 1..Cardinality(SlideFrames(frames, n)) |->
        LET k == CHOOSE f \in SlideFrames(frames, n) :
                    Cardinality({g \in SlideFrames(frames, n) : g < f}) = j - 1
            h == CHOOSE g \in NameNumbers[frames[k].name] : TRUE
        IN [at |-> <<0, k>>, sectionNumber |-> h.a, slideNumber |-> h.b]]

\* C22: fallback locator.  The slide items collected from the frames scanned
\* so far are, in page order, one item for every frame that is not hidden and
\* whose name matches a naming pattern, with the section and slide number of
\* the first pattern (in the order 1, 2, 3, 4) that matches, 'Slide <m>' alone
\* giving section 1; hidden frames and frames matching no pattern give no
\* item.  When the scan ends with items, these are the items processed.
C22_FallbackLocator ==
    col.from = "frames" =>
        /\ ItemsSeen(col.slideItems) = ExpectedFrameItems(doc.frames, col.sectionIndex)
        /\ (col.sectionIndex = Len(doc.frames) /\ Len(col.slideItems) > 0)
              => slideItems = col.slideItems

\* the scan of frames whose names match several patterns has ended: the
\* S-prefixed pair won over the dotted pair before it, the full pattern over
\* the 'Slide <m>' before it, and the hidden and the unmatched frame gave none
C22_Witness ==
    /\ col.from = "frames"
    /\ col.sectionIndex = Len(doc.frames)
    /\ Len(doc.frames) = 7
    /\ Len(slideItems) = 5
    /\ <<slideItems[1].sectionNumber, slideItems[1].slideNumber>> = <<3, 4>>
    /\ <<slideItems[2].sectionNumber, slideItems[2].slideNumber>> = <<2, 3>>
    /\ <<slideItems[3].sectionNumber, slideItems[3].slideNumber>> = <<1, 1>>

\* C26: the analysis applied to a slide is a result that the collaborator
\* produced for the image of that same slide, in answer to a request of the
\* run that applies it, never one produced for another slide with the same
\* 'slide-<section>-<slide>' key.
C26_AnalysisOfSameSlide ==
    [][ServedFromCache =>
          /\ cacheRun[SlideId(CurrentItem)].at = CurrentItem.node.at
          /\ cacheRun[SlideId(CurrentItem)].req = run]_vars

\* the final messages ('data' or 'error') that call r has posted
FinalMessages(r) == {k \in 1..Len(sink) : sink[k].run = r}

\* C27: every extraction run invokes its completion callback at most once and
\* posts at most one final message, 'data' or 'error', and none before the
\* callback, whichever way it goes through grid lookup, fallback and batch
\* processing.
C27_AtMostOneFinalMessage ==
    /\ completed <= 1
    /\ \A c \in others : c.completed <= 1
    /\ \A r \in 1..runs : Cardinality(FinalMessages(r)) <= 1
    /\ (completed = 0) => FinalMessages(run) = {}
    /\ \A c \in others : (c.completed = 0) => FinalMessages(c.run) = {}

\* two runs have ended, one message each
C27_Witness ==
    /\ pc = "done"
    /\ others = {}
    /\ runs = 2
    /\ Cardinality(FinalMessages(1)) = 1
    /\ Cardinality(FinalMessages(2)) = 1

====
